---- MODULE Spec2Model ----
(***************************************************************************)
(* BibliographyManager (editor/src/api/bibliography/bibliography.ts): the  *)
(* aggregate source list, the fuzzy index and the write policy, with the   *)
(* asynchronous load() and the synchronous queries that read them; the     *)
(* citation panel's collection tree (toTree); the code chunk's node view   *)
(* (optional/ace/ace.ts, AceNodeView).                                     *)
(***************************************************************************)
EXTENDS Integers, Sequences, FiniteSets, TLC

VARIABLES
    sources,      \* BibliographyManager.sources  (optional BibliographySource[])
    fuse,         \* BibliographyManager.fuse     (optional index over a source list)
    writable,     \* BibliographyManager.writable (optional boolean)
    items,        \* items[p]: what provider p's items() returns now
    paths,        \* paths[p]: what provider p's bibliographyPaths(doc, ui) returned last
    calls,        \* calls[l]: the position of the l-th load() call
    lastLoad,     \* the load() call that completed last, and what it saw
    indexBuilds,  \* number of updateIndex() runs so far (the rebuild spy)
    warnings,     \* warnings[p]: what provider p's warningMessage() returns now
    bibLaTeX,     \* the position and result of the generateBibLaTeX() call
    held,         \* the list a consumer was returned last, and which array it is
    panel,        \* the citation panel's last toTree() call: its array and its tree
    nodeView,     \* a code chunk's node view, its embedded editor and the outer editor's node
    computed      \* the node view module's last computeChange() call: its arguments and result

\* What the providers answer besides their items, and the call that asks.
delegation == <<warnings, bibLaTeX>>

\* What the manager does not touch: the state of the editor's user interface.
uiState == <<panel, nodeView, computed>>

\* What the user interface does not touch: the manager, its providers and
\* its consumers.
manager == <<sources, fuse, writable, items, paths, calls, lastLoad, indexBuilds, warnings,
             bibLaTeX, held>>

vars == <<sources, fuse, writable, items, paths, calls, lastLoad, indexBuilds, warnings, bibLaTeX,
         held, panel, nodeView, computed>>

----------------------------------------------------------------------------
(* Optional values: a field or argument that may be undefined.             *)

None == <<>>
Some(v) == <<v>>
Get(o) == o[1]

\* JavaScript truthiness of an optional string (undefined and '' are falsy).
TruthyStr(o) == o # None /\ Get(o) # ""

\* What a call on undefined raises.
TypeError == <<"TypeError">>

----------------------------------------------------------------------------
(* Bounds of the model.                                                    *)

\* load() calls issued in one behaviour of Spec.
MaxLoads == 2

----------------------------------------------------------------------------
(* Providers and sources.                                                  *)

kLocalBiliographyProviderKey == "bibl"
kZoteroProviderKey == "zotero"

\* this.providers, in registration order.
providers == <<kLocalBiliographyProviderKey, kZoteroProviderKey>>
ProviderKeys == {providers[i] : i \in DOMAIN providers}

\* A BibliographySource. provider is not a field the interface declares: it
\* is read by the index keys and by the write-policy filter of the search,
\* and is undefined on every source.
Src(id, providerKey, collectionKeys, doi, title) ==
    [id |-> id, providerKey |-> providerKey, collectionKeys |-> collectionKeys,
     DOI |-> doi, title |-> title, provider |-> None]

\* A BibliographyFile.
File(fullPath, isWritable) == [fullPath |-> fullPath, writable |-> isWritable]

\* What a provider's load can leave in its items(): per provider (in
\* registration order) the lists its data source can hold.
LocalLists ==
    { <<Src("a1", kLocalBiliographyProviderKey, {}, Some("10.1/x"), "smith"),
        Src("b1", kLocalBiliographyProviderKey, {}, Some("10.1/y"), "jones")>>,
      <<Src("a1", kLocalBiliographyProviderKey, {}, Some("10.1/x"), "smyth"),
        Src("a1", kLocalBiliographyProviderKey, {}, Some("10.1/z"), "smith")>> }

RemoteLists ==
    { <<Src("a1", kZoteroProviderKey, {"c1"}, None, "smith"),
        Src("c1", kZoteroProviderKey, {"c1", "c2"}, Some("10.1/y"), "smith")>>,
      <<Src("c1", kZoteroProviderKey, {"c2"}, None, "smyth"),
        Src("d1", kZoteroProviderKey, {"c1"}, None, "smith")>> }

Catalogue == <<LocalLists, RemoteLists>>

\* A local bibliography of n sources that all match the query "smith": the
\* first has the id a1, the others ids of their own.
Bulk(n) ==
    [k \in 1..n |->
        IF k = 1 THEN Src("a1", kLocalBiliographyProviderKey, {}, Some("10.1/x"), "smith")
        ELSE Src("L" \o ToString(k), kLocalBiliographyProviderKey, {}, None, "smith")]

\* What bibliographyPaths(doc, ui) can return, per provider.
PathLists ==
    << {<<>>, <<File("refs.bib", FALSE)>>},
       {<<>>, <<File("zotero.bib", TRUE)>>} >>

----------------------------------------------------------------------------
(* Library functions the manager calls.                                    *)

\* lodash uniqby(list, source => source.id): the first element of each id,
\* in the order of the list.  Halving keeps the evaluation shallow on long
\* lists: the left half's survivors come first, then the survivors of the
\* right half whose id the left half has not shown.
RECURSIVE uniqby(_)
uniqby(list) ==
    IF Len(list) <= 1 THEN list
    ELSE LET h == Len(list) \div 2
             left == uniqby(SubSeq(list, 1, h))
             seen == {left[i].id : i \in DOMAIN left}
             fresh(e) == e.id \notin seen
         IN left \o uniqby(SelectSeq(SubSeq(list, h + 1, Len(list)), fresh))

\* Mutant of concat: the lists joined last to first.
RECURSIVE concat_Reversed(_)
concat_Reversed(lists) ==
    IF lists = <<>> THEN <<>> ELSE concat_Reversed(Tail(lists)) \o Head(lists)

\* ([] as T[]).concat(...lists)
RECURSIVE concat(_)
concat(lists) ==
    IF lists = <<>> THEN <<>> ELSE Head(lists) \o concat(Tail(lists))

\* Mutant of reduceOr: an update is needed when the first provider asks.
reduceOr_FirstOnly(a) == a[1]

\* Mutant of reduceOr: an update is always needed.
reduceOr_AlwaysTrue(a) == TRUE

\* array.reduce((prev, curr) => prev || curr) on a non-empty boolean array
RECURSIVE reduceOr(_)
reduceOr(a) ==
    IF Len(a) = 1 THEN a[1] ELSE reduceOr(SubSeq(a, 1, Len(a) - 1)) \/ a[Len(a)]

\* Fuse's score of one source for a query over kFields, as a rank: 0 for an
\* exact hit on the id or the text, 1 for a fuzzy hit within the threshold,
\* NoMatch otherwise.  Lower is better.
NoMatch == -1
Fuzzy == {<<"smith", "smyth">>}
Score(query, e) ==
    IF e.id = query \/ e.title = query THEN 0
    ELSE IF <<query, e.title>> \in Fuzzy THEN 1
    ELSE NoMatch

\* Mutant of createIndex: the last source is left out of the index.
createIndex_DropsLast(bibSources) ==
    [docs |-> IF bibSources = <<>> THEN <<>> ELSE SubSeq(bibSources, 1, Len(bibSources) - 1)]

\* Fuse.createIndex(keys, bibSources) and new Fuse(bibSources, options, index)
createIndex(bibSources) == [docs |-> bibSources]

\* fuse.search(query, {shouldSort: true, limit, ...}): the matching documents
\* by ascending score, documents of equal score in index order, cut to limit.
FuseSearch(index, query, lim) ==
    LET rank0(e) == Score(query, e) = 0
        rank1(e) == Score(query, e) = 1
        sorted == SelectSeq(index.docs, rank0) \o SelectSeq(index.docs, rank1)
    IN SubSeq(sorted, 1, IF Len(sorted) < lim THEN Len(sorted) ELSE lim)

----------------------------------------------------------------------------
(* The synchronous queries of the manager.                                 *)

\* const limit = 1000 in search()
limit == 1000

isWritable == IF writable = None THEN FALSE ELSE Get(writable)

\* Mutant of allSources: no deduplication of the writable aggregate.
allSources_NoDedup ==
    LET isLocal(source) == source.providerKey = kLocalBiliographyProviderKey
    IN IF sources # None /\ isWritable
       THEN Get(sources)
       ELSE uniqby(IF sources # None THEN SelectSeq(Get(sources), isLocal) ELSE <<>>)

\* Mutant of allSources: the write policy is not consulted.
allSources_IgnoresWritable ==
    IF sources # None THEN uniqby(Get(sources)) ELSE <<>>

\* Mutant of allSources: sources is filtered without the ?. and || [] guards.
allSources_Unguarded ==
    LET isLocal(source) == source.providerKey = kLocalBiliographyProviderKey
    IN IF sources = None THEN TypeError
       ELSE IF isWritable THEN uniqby(Get(sources))
       ELSE uniqby(SelectSeq(Get(sources), isLocal))

allSources ==
    LET isLocal(source) == source.providerKey = kLocalBiliographyProviderKey
    IN IF sources # None /\ isWritable
       THEN uniqby(Get(sources))
       ELSE uniqby(IF sources # None THEN SelectSeq(Get(sources), isLocal) ELSE <<>>)

hasSources == Len(allSources) > 0

\* Mutant of sourcesForProvider: this.sources is filtered, not allSources().
sourcesForProvider_OfAggregate(providerKey) ==
    LET ofProvider(item) == item.providerKey = providerKey
    IN uniqby(SelectSeq(IF sources = None THEN <<>> ELSE Get(sources), ofProvider))

sourcesForProvider(providerKey) ==
    LET ofProvider(item) == item.providerKey = providerKey
    IN uniqby(SelectSeq(allSources, ofProvider))

sourcesForProviderCollection(provider, collectionKey) ==
    LET inCollection(item) == collectionKey \in item.collectionKeys
    IN uniqby(SelectSeq(sourcesForProvider(provider), inCollection))

\* Mutant of localSources: no filter on the provider.
localSources_AnyProvider == allSources

localSources ==
    LET isLocal(source) == source.providerKey = kLocalBiliographyProviderKey
    IN SelectSeq(allSources, isLocal)

\* Array.find, given the elements passing its test: the first, or undefined.
firstOrUndefined(hits) == IF hits = <<>> THEN None ELSE Some(Head(hits))

findDoiInLocalBibliography(doi) ==
    LET hasDoi(source) == source.DOI = Some(doi)
    IN firstOrUndefined(SelectSeq(localSources, hasDoi))

findIdInLocalBibliography(id) ==
    LET hasId(source) == source.id = id
    IN firstOrUndefined(SelectSeq(localSources, hasId))

\* Mutant of searchAllSources: the limit is not passed to the index.
searchAllSources_NoLimit(query, lim) ==
    IF fuse # None
    THEN LET results == FuseSearch(Get(fuse), query, Len(Get(fuse).docs))
             isLocal(item) == item.provider = Some(kLocalBiliographyProviderKey)
             filteredItems == IF isWritable THEN results ELSE SelectSeq(results, isLocal)
         IN uniqby(filteredItems)
    ELSE <<>>

\* Mutant of searchAllSources: the local-only filter runs whatever the
\* write policy.
searchAllSources_FilterAlways(query, lim) ==
    IF fuse # None
    THEN LET results == FuseSearch(Get(fuse), query, lim)
             isLocal(item) == item.provider = Some(kLocalBiliographyProviderKey)
         IN uniqby(SelectSeq(results, isLocal))
    ELSE <<>>

\* Mutant of searchAllSources: the matches are not deduplicated.
searchAllSources_NoDedup(query, lim) ==
    IF fuse # None
    THEN LET results == FuseSearch(Get(fuse), query, lim)
             isLocal(item) == item.provider = Some(kLocalBiliographyProviderKey)
         IN IF isWritable THEN results ELSE SelectSeq(results, isLocal)
    ELSE <<>>

searchAllSources(query, lim) ==
    IF fuse # None
    THEN LET results == FuseSearch(Get(fuse), query, lim)
             isLocal(item) == item.provider = Some(kLocalBiliographyProviderKey)
             filteredItems == IF isWritable THEN results ELSE SelectSeq(results, isLocal)
         IN uniqby(filteredItems)
    ELSE <<>>

searchProvider(query, lim, providerKey) ==
    LET ofProvider(item) == item.providerKey = providerKey
    IN SelectSeq(searchAllSources(query, lim), ofProvider)

\* Mutant of searchProviderCollection: the provider key is not applied.
searchProviderCollection_AnyProvider(query, lim, providerKey, collectionKey) ==
    LET inCollection(item) == collectionKey \in item.collectionKeys
    IN SelectSeq(searchAllSources(query, lim), inCollection)

searchProviderCollection(query, lim, providerKey, collectionKey) ==
    LET inCollection(item) == collectionKey \in item.collectionKeys
    IN SelectSeq(searchProvider(query, lim, providerKey), inCollection)

\* Mutant of search: only an undefined query skips the index, '' does not.
search_EmptyStringQueries(query, providerKey, collectionKey) ==
    IF query # None
    THEN IF TruthyStr(providerKey) /\ TruthyStr(collectionKey)
         THEN searchProviderCollection(Get(query), limit, Get(providerKey), Get(collectionKey))
         ELSE IF TruthyStr(providerKey)
              THEN searchProvider(Get(query), limit, Get(providerKey))
              ELSE searchAllSources(Get(query), limit)
    ELSE IF TruthyStr(providerKey) /\ TruthyStr(collectionKey)
         THEN sourcesForProviderCollection(Get(providerKey), Get(collectionKey))
         ELSE IF TruthyStr(providerKey)
              THEN sourcesForProvider(Get(providerKey))
              ELSE allSources

search(query, providerKey, collectionKey) ==
    IF TruthyStr(query)
    THEN IF TruthyStr(providerKey) /\ TruthyStr(collectionKey)
         THEN searchProviderCollection(Get(query), limit, Get(providerKey), Get(collectionKey))
         ELSE IF TruthyStr(providerKey)
              THEN searchProvider(Get(query), limit, Get(providerKey))
              ELSE searchAllSources(Get(query), limit)
    ELSE IF TruthyStr(providerKey) /\ TruthyStr(collectionKey)
         THEN sourcesForProviderCollection(Get(providerKey), Get(collectionKey))
         ELSE IF TruthyStr(providerKey)
              THEN sourcesForProvider(Get(providerKey))
              ELSE allSources

----------------------------------------------------------------------------
(* Write policy.                                                           *)

bibliographyFiles(providerPaths) == concat(providerPaths)

\* Mutant of shouldAllowWrites: no bibliography file means not writable.
shouldAllowWrites_EmptyDenied(providerPaths) ==
    LET files == concat(providerPaths)
        isWritableFile(bibFile) == bibFile.writable
    IN Len(SelectSeq(files, isWritableFile)) > 0

shouldAllowWrites(providerPaths) ==
    LET files == bibliographyFiles(providerPaths)
        isWritableFile(bibFile) == bibFile.writable
    IN IF Len(files) = 0 THEN TRUE
       ELSE Len(SelectSeq(files, isWritableFile)) > 0

----------------------------------------------------------------------------
(* Which array a returned list is. The functions the queries are built     *)
(* from each return a new array; what a query returns is then new or the   *)
(* manager's own this.sources array, according to how it is composed.      *)

FreshArray == "fresh"
SourcesArray == "this.sources"

\* Mutant of uniqbyRef: the array given is returned itself.
uniqbyRef_SameArray(array) == array

\* uniqby(array, iteratee), Array.prototype.filter, Array.prototype.map
uniqbyRef(array) == FreshArray
filterRef(array) == FreshArray
mapRef(array) == FreshArray

allSourcesRef ==
    IF sources # None /\ isWritable
    THEN uniqbyRef(SourcesArray)
    ELSE uniqbyRef(IF sources # None THEN filterRef(SourcesArray) ELSE FreshArray)

sourcesForProviderRef == uniqbyRef(filterRef(allSourcesRef))
sourcesForProviderCollectionRef == uniqbyRef(filterRef(sourcesForProviderRef))

searchAllSourcesRef ==
    IF fuse # None
    THEN LET itemsRef == mapRef(FreshArray)
         IN uniqbyRef(IF isWritable THEN itemsRef ELSE filterRef(itemsRef))
    ELSE FreshArray

searchProviderRef == filterRef(searchAllSourcesRef)
searchProviderCollectionRef == filterRef(searchProviderRef)

searchRef(query, providerKey, collectionKey) ==
    IF TruthyStr(query)
    THEN IF TruthyStr(providerKey) /\ TruthyStr(collectionKey) THEN searchProviderCollectionRef
         ELSE IF TruthyStr(providerKey) THEN searchProviderRef
         ELSE searchAllSourcesRef
    ELSE IF TruthyStr(providerKey) /\ TruthyStr(collectionKey) THEN sourcesForProviderCollectionRef
         ELSE IF TruthyStr(providerKey) THEN sourcesForProviderRef
         ELSE allSourcesRef

\* What a consumer holds: nothing yet, or the list its last search returned.
NothingHeld == [returned |-> FALSE, array |-> FreshArray, list |-> <<>>, altered |-> FALSE]

\* this.sources is assigned a new array: an array that was this.sources is
\* the manager's no longer.
Released(h) == IF h.array = SourcesArray THEN [h EXCEPT !.array = FreshArray] ELSE h

\* A consumer calls search(query, providerKey, collectionKey) and keeps the
\* list returned.
SearchReturns(query, providerKey, collectionKey) ==
    /\ held' = [returned |-> TRUE,
                array |-> searchRef(query, providerKey, collectionKey),
                list |-> search(query, providerKey, collectionKey),
                altered |-> FALSE]
    /\ UNCHANGED <<sources, fuse, writable, items, paths, calls, lastLoad, indexBuilds,
                   delegation, uiState>>

\* Mutant of LookupReturns: the local sources computed for the lookup are
\* kept as the aggregate.
LookupReturns_KeepsLocal(found) ==
    /\ held' = [returned |-> TRUE, array |-> FreshArray, list |-> found, altered |-> FALSE]
    /\ sources' = Some(localSources)
    /\ UNCHANGED <<fuse, writable, items, paths, calls, lastLoad, indexBuilds, delegation, uiState>>

\* A consumer calls findIdInLocalBibliography or findDoiInLocalBibliography
\* and keeps what it returned: found is the source found, or undefined.
LookupReturns(found) ==
    /\ held' = [returned |-> TRUE, array |-> FreshArray, list |-> found, altered |-> FALSE]
    /\ UNCHANGED <<sources, fuse, writable, items, paths, calls, lastLoad, indexBuilds,
                   delegation, uiState>>

\* A consumer calls localSources() and keeps the list returned.
LocalSourcesReturns ==
    /\ held' = [returned |-> TRUE, array |-> filterRef(allSourcesRef),
                list |-> localSources, altered |-> FALSE]
    /\ UNCHANGED <<sources, fuse, writable, items, paths, calls, lastLoad, indexBuilds,
                   delegation, uiState>>

\* The consumer removes the first element of the list it holds
\* (Array.prototype.shift). The array is altered, whoever else refers to it:
\* if it is this.sources, the aggregate and the index built over it are.
ConsumerAlters ==
    /\ held.returned /\ ~held.altered
    /\ held.list # <<>>
    /\ held' = [held EXCEPT !.list = Tail(held.list), !.altered = TRUE]
    /\ IF held.array = SourcesArray
       THEN /\ sources' = Some(Tail(held.list))
            /\ fuse' = Some(createIndex(Tail(held.list)))
       ELSE UNCHANGED <<sources, fuse>>
    /\ UNCHANGED <<writable, items, paths, calls, lastLoad, indexBuilds, delegation, uiState>>

----------------------------------------------------------------------------
(* What the manager asks of one provider: warnings and BibLaTeX.           *)

\* this.providers.find(prov => prov.key === key): the position of the first
\* provider with that key, if any. An undefined key equals no provider's.
findProvider(key) ==
    LET found == {i \in DOMAIN providers : key = Some(providers[i])}
    IN IF found = {} THEN None ELSE Some(CHOOSE i \in found : \A j \in found : i <= j)

\* What a provider's warningMessage() can return.
WarningMessages == {None, Some(""), Some("Unable to read bibliography"),
                    Some("Unable to reach Zotero")}

\* Mutant of warning: the last provider with a warning is taken.
warning_LastProvider ==
    LET warned == {i \in DOMAIN providers : TruthyStr(warnings[i])}
    IN IF warned = {} THEN None
       ELSE warnings[CHOOSE i \in warned : \A j \in warned : i >= j]

\* warning()
warning ==
    LET warned == {i \in DOMAIN providers : TruthyStr(warnings[i])}
    IN IF warned = {} THEN None
       ELSE warnings[CHOOSE i \in warned : \A j \in warned : i <= j]

\* warningForProvider(providerKey)
warningForProvider(providerKey) ==
    IF TruthyStr(providerKey)
    THEN LET warningProvider == findProvider(providerKey)
         IN IF warningProvider # None THEN warnings[Get(warningProvider)] ELSE None
    ELSE None

\* The CSL records exported, and toBibLaTeX(id, csl) of bibDB.
CSLs == {[type |-> "article"], [type |-> "book"]}
toBibLaTeX(id, csl) == "@" \o csl.type \o "{" \o id \o "}"

\* What provider i's generateBibLaTeX promise can resolve to: its own text
\* for the source, or undefined.
ProviderBibLaTeX(i, id) == {None, Some("@" \o providers[i] \o "{" \o id \o "}")}

\* A pending promise, as an operand of if (...): an object reference, which
\* is truthy whatever the promise later resolves to.
PendingPromise(i) == [promiseOf |-> i]
TruthyObject(object) == TRUE

NotAsked == [pc |-> "idle"]

\* generateBibLaTeX(ui, id, csl, provider) up to its return. The provider's
\* promise is tested, not its value; the async function then resolves as
\* the returned promise does.
generateBibLaTeX(id, csl, provider) ==
    /\ bibLaTeX.pc # "delegated"
    /\ LET dataProvider == findProvider(provider)
           call == [id |-> id, csl |-> csl, provider |-> provider]
       IN IF dataProvider # None /\ TruthyObject(PendingPromise(Get(dataProvider)))
          THEN bibLaTeX' = call @@ [pc |-> "delegated", asked |-> dataProvider]
          ELSE bibLaTeX' = call @@ [pc |-> "resolved", asked |-> dataProvider,
                                    yielded |-> None,
                                    result |-> Some(toBibLaTeX(id, csl))]
    /\ UNCHANGED <<sources, fuse, writable, items, paths, calls, lastLoad, indexBuilds, warnings,
                   held, uiState>>

\* The promise of the provider's generator resolves, and with it the call.
ProviderGenerated ==
    /\ bibLaTeX.pc = "delegated"
    /\ \E text \in ProviderBibLaTeX(Get(bibLaTeX.asked), bibLaTeX.id) :
          bibLaTeX' = [id |-> bibLaTeX.id, csl |-> bibLaTeX.csl,
                       provider |-> bibLaTeX.provider,
                       asked |-> bibLaTeX.asked, pc |-> "resolved",
                       yielded |-> text, result |-> text]
    /\ UNCHANGED <<sources, fuse, writable, items, paths, calls, lastLoad, indexBuilds, warnings,
                   held, uiState>>

\* A provider's warning appears, changes or goes away.
ProviderWarns(i) ==
    /\ \E w \in WarningMessages \ {warnings[i]} : warnings' = [warnings EXCEPT ![i] = w]
    /\ UNCHANGED <<sources, fuse, writable, items, paths, calls, lastLoad, indexBuilds, bibLaTeX,
                   held, uiState>>

----------------------------------------------------------------------------
(* The citation panel's collection tree                                    *)
(* (insert_citation-source-panel-bibliography.tsx, toTree).                *)

\* The names collections carry, in alphabetical order.
CollectionNames == <<"art", "bio", "chem">>

\* a.localeCompare(b): negative, zero or positive as a sorts before, with
\* or after b.
localeCompare(a, b) ==
    LET position(name) == CHOOSE k \in DOMAIN CollectionNames : CollectionNames[k] = name
    IN position(a) - position(b)

\* The keys of the collections a provider lists, and the parent keys they
\* may name: none, the empty string, a listed key, or a key that is not
\* listed.
CollectionKeys == <<"k1", "k2", "k3">>
ParentKeys == {None, Some(""), Some("k9")} \cup {Some(CollectionKeys[k]) : k \in DOMAIN CollectionKeys}

\* BibliographyCollection {name, key, parentKey?}
Collection(key, name, parentKey) == [key |-> key, name |-> name, parentKey |-> parentKey]

\* What provider.collections(doc, ui) can return: lists of collections
\* with distinct keys.
CollectionLists ==
    UNION {{[k \in 1..n |-> Collection(CollectionKeys[k], names[k], parents[k])] :
               names \in [1..n -> {CollectionNames[j] : j \in DOMAIN CollectionNames}],
               parents \in [1..n -> ParentKeys]} :
           n \in 0..Len(CollectionKeys)}

\* containers.sort((a, b) => a.name.localeCompare(b.name)): Array.sort is
\* stable, collections of one name keep their order.
RECURSIVE sort(_)
sort(containers) ==
    IF containers = <<>> THEN <<>>
    ELSE LET last == containers[Len(containers)]
             front == sort(SubSeq(containers, 1, Len(containers) - 1))
             notAfter(c) == localeCompare(c.name, last.name) <= 0
             after(c) == localeCompare(c.name, last.name) > 0
         IN SelectSeq(front, notAfter) \o <<last>> \o SelectSeq(front, after)

\* The node objects of one toTree call: objects[n] is the n-th object
\* allocated, treeMap maps a key to the object stored under it, rootNodes
\* and children refer to objects by their number.
NoNodes == [objects |-> <<>>, treeMap |-> <<>>, rootNodes |-> <<>>]
NewNode(key, name, type) == [key |-> key, name |-> name, type |-> type, children |-> <<>>]

\* Mutant of toTreeStep: a node stored under the container's key is not
\* looked for, the container always gets a new node.
toTreeStep_AlwaysNewNode(nodes, container, type) ==
    LET created == Append(nodes.objects, NewNode(container.key, container.name, type))
        currentNode == Len(created)
        named == [created EXCEPT ![currentNode].name = container.name]
        hasParentKey == container.parentKey \notin {None, Some("")}
        parentKey == Get(container.parentKey)
        parentMet == hasParentKey /\ parentKey \in DOMAIN nodes.treeMap
        withParent == IF hasParentKey /\ ~parentMet
                      THEN Append(named, NewNode(parentKey, "", type))
                      ELSE named
        parentNode == IF parentMet THEN nodes.treeMap[parentKey] ELSE Len(withParent)
        treeMap == IF hasParentKey /\ ~parentMet
                   THEN (parentKey :> parentNode) @@ nodes.treeMap
                   ELSE nodes.treeMap
    IN [objects |-> IF hasParentKey
                    THEN [withParent EXCEPT ![parentNode].children = Append(@, currentNode)]
                    ELSE withParent,
        treeMap |-> (container.key :> currentNode) @@ treeMap,
        rootNodes |-> IF hasParentKey THEN nodes.rootNodes
                      ELSE Append(nodes.rootNodes, currentNode)]

\* The body of toTree's forEach for one container: the node stored under
\* its key or a new one, named; pushed to its parent's children (a
\* placeholder if the parent was not met yet) or to the root nodes; stored
\* under its key.
toTreeStep(nodes, container, type) ==
    LET existing == container.key \in DOMAIN nodes.treeMap
        created == IF existing THEN nodes.objects
                   ELSE Append(nodes.objects, NewNode(container.key, container.name, type))
        currentNode == IF existing THEN nodes.treeMap[container.key] ELSE Len(created)
        named == [created EXCEPT ![currentNode].name = container.name]
        hasParentKey == container.parentKey \notin {None, Some("")}
        parentKey == Get(container.parentKey)
        parentMet == hasParentKey /\ parentKey \in DOMAIN nodes.treeMap
        withParent == IF hasParentKey /\ ~parentMet
                      THEN Append(named, NewNode(parentKey, "", type))
                      ELSE named
        parentNode == IF parentMet THEN nodes.treeMap[parentKey] ELSE Len(withParent)
        treeMap == IF hasParentKey /\ ~parentMet
                   THEN (parentKey :> parentNode) @@ nodes.treeMap
                   ELSE nodes.treeMap
    IN [objects |-> IF hasParentKey
                    THEN [withParent EXCEPT ![parentNode].children = Append(@, currentNode)]
                    ELSE withParent,
        treeMap |-> (container.key :> currentNode) @@ treeMap,
        rootNodes |-> IF hasParentKey THEN nodes.rootNodes
                      ELSE Append(nodes.rootNodes, currentNode)]

\* containers.forEach(...) over the first n containers.
RECURSIVE forEach(_, _, _)
forEach(containers, n, type) ==
    IF n = 0 THEN NoNodes ELSE toTreeStep(forEach(containers, n - 1, type), containers[n], type)

\* The tree below object n as a value: a NavigationTreeNode with its
\* children's trees. depth bounds the unfolding.
RECURSIVE NavigationTreeNode(_, _, _)
NavigationTreeNode(objects, n, depth) ==
    [key |-> objects[n].key, name |-> objects[n].name, type |-> objects[n].type,
     children |-> IF depth = 0 THEN <<>>
                  ELSE [k \in DOMAIN objects[n].children |->
                           NavigationTreeNode(objects, objects[n].children[k], depth - 1)]]

\* toTree(type, containers): the root nodes after the loop.
toTree(type, containers) ==
    LET sorted == sort(containers)
        nodes == forEach(sorted, Len(sorted), type)
    IN [k \in DOMAIN nodes.rootNodes |->
           NavigationTreeNode(nodes.objects, nodes.rootNodes[k], Len(sorted))]

\* No tree built yet.
NoTree == [built |-> FALSE, type |-> "", containers |-> <<>>, rootNodes |-> <<>>]

\* bibliographySourcePanel builds the node of one provider, once for the
\* panel it returns: toTree over the provider's collections. The array the
\* provider returned is sorted in place.
ToTree(type, containers) ==
    /\ ~panel.built
    /\ panel' = [built |-> TRUE, type |-> type, containers |-> sort(containers),
                 rootNodes |-> toTree(type, containers)]
    /\ UNCHANGED <<manager, nodeView, computed>>

----------------------------------------------------------------------------
(* The code chunk's node view (editor/src/optional/ace/ace.ts,             *)
(* AceNodeView): the embedded editor, the outer document's node, and the   *)
(* handlers that carry text and selection between them.                    *)

\* Texts of a code chunk: strings as sequences of characters.
MaxTextLen == 2
Chars == {"a", "b"}
Texts == UNION {[1..n -> Chars] : n \in 0..MaxTextLen}
Offsets == 0..MaxTextLen

\* oldVal.slice(0, from) + text + oldVal.slice(to)
Splice(oldVal, from, to, text) ==
    SubSeq(oldVal, 1, from) \o text \o SubSeq(oldVal, to + 1, Len(oldVal))

\* Mutant of suffixStart: the common suffix may reach into the common
\* prefix of the new value.
RECURSIVE suffixStart_Overlapping(_, _, _, _, _)
suffixStart_Overlapping(oldVal, newVal, start, oldEnd, newEnd) ==
    IF oldEnd > start /\ newEnd > 0 /\ oldVal[oldEnd] = newVal[newEnd]
    THEN suffixStart_Overlapping(oldVal, newVal, start, oldEnd - 1, newEnd - 1)
    ELSE <<oldEnd, newEnd>>

\* computeChange(oldVal, newVal): null, or the range of oldVal to replace
\* and the text to put there.
RECURSIVE prefixEnd(_, _, _, _)
prefixEnd(oldVal, newVal, start, oldEnd) ==
    IF start < oldEnd /\ start < Len(newVal) /\ oldVal[start + 1] = newVal[start + 1]
    THEN prefixEnd(oldVal, newVal, start + 1, oldEnd)
    ELSE start
RECURSIVE suffixStart(_, _, _, _, _)
suffixStart(oldVal, newVal, start, oldEnd, newEnd) ==
    IF oldEnd > start /\ newEnd > start /\ oldVal[oldEnd] = newVal[newEnd]
    THEN suffixStart(oldVal, newVal, start, oldEnd - 1, newEnd - 1)
    ELSE <<oldEnd, newEnd>>
computeChange(oldVal, newVal) ==
    IF oldVal = newVal THEN None
    ELSE LET start == prefixEnd(oldVal, newVal, 0, Len(oldVal))
             ends == suffixStart(oldVal, newVal, start, Len(oldVal), Len(newVal))
         IN Some([from |-> start, to |-> ends[1], text |-> SubSeq(newVal, start + 1, ends[2])])

\* The values computeChange() is called with: texts of up to MaxChangeLen
\* characters.
MaxChangeLen == 3
ChangeTexts == UNION {[1..n -> Chars] : n \in 0..MaxChangeLen}

\* No computeChange() call so far.
NotComputed == [called |-> FALSE, oldVal |-> <<>>, newVal |-> <<>>, change |-> None]

\* update() or valueChanged() calls computeChange(oldVal, newVal).
ComputeChange(oldVal, newVal) ==
    /\ computed' = [called |-> TRUE, oldVal |-> oldVal, newVal |-> newVal,
                    change |-> computeChange(oldVal, newVal)]
    /\ UNCHANGED <<manager, panel, nodeView>>

\* The node view after its constructor, for a node of that text and the
\* render queue not completed: no editor yet. doc and pmSelection are the
\* outer editor's node text and selection (offsets into the node's text,
\* or none when the selection is elsewhere); value, selection <<anchor,
\* lead>> and focused are the embedded editor's; listening tells whether
\* the view's handlers are attached to it; handing tells that the outer
\* editor has applied a transaction of the view and not yet handed the
\* new node to update(). pushing, dispatched, asked and
\* applied observe the run: the method of the view that pushes into the
\* embedded editor now, the transactions the last handler dispatched (which
\* event's handler, during which push), the selections setSelection() was called
\* with in the last handler, and those it set in the embedded editor.
\* renderCompleted is what renderQueue.isRenderCompleted() answered the
\* constructor and inRenderQueue whether the view was added to the queue;
\* chunks counts the chunk editors the view created, handlers the times it
\* attached its handlers and commands to one, subscriptions the entries of
\* this.subscriptions; recalled tells that the last handler was an
\* initEditor() call that found the editor existing.
\* replaced counts the replace transactions the last handler dispatched.
\* timers are the ids of the view's resize timeouts pending in the window,
\* offsetWidth is the width of the element the chunk editor lives in,
\* onResize tells that the view's resize subscription is active, and
\* resizing what the last handler did about resizing: "debounced" (a
\* resize event was handled), "resized" or "skipped" (a timeout ran).
AceNodeView(text, selection) ==
    [node |-> text, chunk |-> FALSE, aceEditor |-> FALSE, editSession |-> FALSE,
     updating |-> FALSE, escaping |-> FALSE, queuedSelection |-> None,
     value |-> <<>>, selection |-> <<0, 0>>, focused |-> FALSE, listening |-> FALSE,
     doc |-> text, pmSelection |-> selection, handing |-> FALSE,
     pushing |-> "none", dispatched |-> {}, asked |-> <<>>, applied |-> <<>>,
     renderCompleted |-> FALSE, inRenderQueue |-> TRUE,
     chunks |-> 0, handlers |-> 0, subscriptions |-> 1, recalled |-> FALSE,
     resizeTimer |-> 0, renderedWidth |-> 0, timers |-> {}, offsetWidth |-> 1,
     onResize |-> FALSE, resizing |-> "none", replaced |-> 0]

Min(a, b) == IF a < b THEN a ELSE b
Max(a, b) == IF a < b THEN b ELSE a

\* session.getSelection().getRange(): the selection from its start to its
\* end, whichever way it was made.
getRange(v) == <<Min(v.selection[1], v.selection[2]), Max(v.selection[1], v.selection[2])>>

\* asProseMirrorSelection(doc): anchor at the range's start, head at its end.
asProseMirrorSelection(v) == IF v.editSession THEN Some(getRange(v)) ELSE None

\* view.dispatch(state.tr.setSelection(selection)): the outer selection is
\* the one dispatched.
dispatchSelection(v, selection, origin) ==
    [v EXCEPT !.pmSelection = selection,
              !.dispatched = @ \cup {[origin |-> origin, during |-> v.pushing,
                                      tr |-> "setSelection"]}]

\* forwardSelection()
forwardSelection(v, origin) ==
    IF ~v.chunk \/ ~v.focused THEN v
    ELSE LET selection == asProseMirrorSelection(v)
         IN IF selection # None /\ selection # v.pmSelection
            THEN dispatchSelection(v, selection, origin)
            ELSE v

\* The outer selection after the node's text became that text: kept
\* inside the text.
mapSelection(selection, text) ==
    IF selection = None THEN None
    ELSE Some(<<Min(Get(selection)[1], Len(text)), Min(Get(selection)[2], Len(text))>>)

\* view.dispatch(state.tr.replaceWith(...)): the outer node's text is
\* replaced, and the outer editor has a new node to hand to update().
dispatchReplace(v, change, origin) ==
    LET text == Splice(v.doc, change.from, change.to, change.text)
    IN [v EXCEPT !.doc = text,
                 !.pmSelection = mapSelection(@, text),
                 !.handing = TRUE,
                 !.replaced = @ + 1,
                 !.dispatched = @ \cup {[origin |-> origin, during |-> v.pushing,
                                         tr |-> "replaceWith"]}]

\* Mutant of valueChanged: the change is computed from the editor's text to
\* the node's.
valueChanged_Swapped(v, origin) ==
    LET change == computeChange(v.value, v.node)
    IN IF change # None THEN dispatchReplace(v, Get(change), origin) ELSE v

\* valueChanged()
valueChanged(v, origin) ==
    LET change == computeChange(v.node, v.value)
    IN IF change # None THEN dispatchReplace(v, Get(change), origin) ELSE v

\* The embedded editor signals 'change' to the handler of line 433.
onChange(v) ==
    IF v.listening /\ ~v.updating THEN valueChanged(v, "change") ELSE v

\* The embedded editor signals 'changeSelection' to the handler of line 428.
onChangeSelection(v) ==
    IF v.listening /\ ~v.updating THEN forwardSelection(v, "changeSelection") ELSE v

\* The embedded editor signals 'focus' to the handler of line 440.
onFocus(v) == IF v.listening THEN forwardSelection(v, "focus") ELSE v

\* The embedded editor moves its selection and signals the move, if it is one.
setSelectionRange(v, anchor, lead) ==
    IF v.selection = <<anchor, lead>> THEN v
    ELSE onChangeSelection([v EXCEPT !.selection = <<anchor, lead>>])

\* The embedded editor's text becomes that text: one change signalled, and
\* the selection kept inside the text.
setText(v, text) ==
    LET changed == onChange([v EXCEPT !.value = text])
    IN setSelectionRange(changed, Min(changed.selection[1], Len(changed.value)),
                                  Min(changed.selection[2], Len(changed.value)))

\* editSession.replace(range, text): the range is removed, then the text
\* inserted, each a change of its own when there is something to remove or
\* insert.
replace(v, from, to, text) ==
    LET removed == IF to > from THEN setText(v, Splice(v.value, from, to, <<>>)) ELSE v
    IN IF text # <<>> THEN setText(removed, Splice(removed.value, from, from, text))
       ELSE removed

\* aceEditor.focus(): the editor takes the focus, if it has it not.
focus(v) == IF v.focused THEN v ELSE onFocus([v EXCEPT !.focused = TRUE])

\* Mutant of update: the change is written without raising the flag.
update_FlagNotRaised(v, text) ==
    IF ~v.editSession THEN v
    ELSE LET entered == [v EXCEPT !.node = text, !.pushing = "update"]
             change == computeChange(entered.value, text)
             written == IF change = None THEN entered
                        ELSE [replace(entered, Get(change).from, Get(change).to,
                                      Get(change).text)
                                 EXCEPT !.updating = FALSE]
         IN [written EXCEPT !.pushing = v.pushing]

\* update(node, _decos) for a node of the view's type with that text.
\* Without edit session it returns false and changes nothing.
update(v, text) ==
    IF ~v.editSession THEN v
    ELSE LET entered == [v EXCEPT !.node = text, !.pushing = "update"]
             change == computeChange(entered.value, text)
             written == IF change = None THEN entered
                        ELSE [replace([entered EXCEPT !.updating = TRUE],
                                      Get(change).from, Get(change).to, Get(change).text)
                                 EXCEPT !.updating = FALSE]
         IN [written EXCEPT !.pushing = v.pushing]

\* Mutant of setSelection: a selection arriving before the editor exists
\* is dropped.
setSelection_NotQueued(v, anchor, head) ==
    IF ~v.aceEditor \/ ~v.editSession
    THEN [v EXCEPT !.asked = Append(@, <<anchor, head>>)]
    ELSE LET entered == [v EXCEPT !.pushing = "setSelection"]
             focused == IF ~entered.escaping THEN focus(entered) ELSE entered
             selected == setSelectionRange([focused EXCEPT !.updating = TRUE],
                                           Min(anchor, Len(focused.value)),
                                           Min(head, Len(focused.value)))
         IN [selected EXCEPT !.updating = FALSE, !.pushing = v.pushing,
                             !.asked = Append(@, <<anchor, head>>),
                             !.applied = Append(@, <<anchor, head>>)]

\* setSelection(anchor, head)
setSelection(v, anchor, head) ==
    IF ~v.aceEditor \/ ~v.editSession
    THEN [v EXCEPT !.queuedSelection = Some(<<anchor, head>>),
                   !.asked = Append(@, <<anchor, head>>)]
    ELSE LET entered == [v EXCEPT !.pushing = "setSelection"]
             focused == IF ~entered.escaping THEN focus(entered) ELSE entered
             selected == setSelectionRange([focused EXCEPT !.updating = TRUE],
                                           Min(anchor, Len(focused.value)),
                                           Min(head, Len(focused.value)))
         IN [selected EXCEPT !.updating = FALSE, !.pushing = v.pushing,
                             !.asked = Append(@, <<anchor, head>>),
                             !.applied = Append(@, <<anchor, head>>)]

\* Mutant of initEditor: a view that has its editor creates another one.
initEditor_NoGuard(v) ==
    LET created == [v EXCEPT !.chunk = TRUE, !.aceEditor = TRUE, !.chunks = @ + 1]
        filled == [setText([created EXCEPT !.updating = TRUE, !.pushing = "initEditor"],
                           created.node)
                      EXCEPT !.updating = FALSE, !.pushing = v.pushing]
        cleared == setSelectionRange(filled, Len(filled.value), Len(filled.value))
        attached == [cleared EXCEPT !.editSession = TRUE, !.listening = TRUE,
                                    !.handlers = @ + 1]
        forwarded == IF attached.queuedSelection # None
                     THEN [setSelection(attached, Get(attached.queuedSelection)[1],
                                        Get(attached.queuedSelection)[2])
                              EXCEPT !.queuedSelection = None]
                     ELSE attached
    IN [forwarded EXCEPT !.subscriptions = @ + 1, !.onResize = TRUE]

\* initEditor(): the editor is created and filled with the node's text,
\* its selection cleared, the handlers attached, the queued selection
\* forwarded and the view subscribed to the resize event. A view that has
\* its editor returns at once.
initEditor(v) ==
    IF v.aceEditor THEN v
    ELSE LET created == [v EXCEPT !.chunk = TRUE, !.aceEditor = TRUE, !.chunks = @ + 1]
             filled == [setText([created EXCEPT !.updating = TRUE, !.pushing = "initEditor"],
                                created.node)
                           EXCEPT !.updating = FALSE, !.pushing = v.pushing]
             cleared == setSelectionRange(filled, Len(filled.value), Len(filled.value))
             attached == [cleared EXCEPT !.editSession = TRUE, !.listening = TRUE,
                                         !.handlers = @ + 1]
             forwarded == IF attached.queuedSelection # None
                          THEN [setSelection(attached, Get(attached.queuedSelection)[1],
                                             Get(attached.queuedSelection)[2])
                                   EXCEPT !.queuedSelection = None]
                          ELSE attached
         IN [forwarded EXCEPT !.subscriptions = @ + 1, !.onResize = TRUE]

\* new AceNodeView(node, ...): the constructor's last lines. With the
\* render queue completed the editor is created at once, otherwise the
\* view is added to the queue.
construct(text, selection, isRenderCompleted) ==
    IF isRenderCompleted
    THEN initEditor([AceNodeView(text, selection) EXCEPT !.renderCompleted = TRUE,
                                                         !.inRenderQueue = FALSE])
    ELSE AceNodeView(text, selection)

\* A handler starts: what the last one was asked, applied and dispatched is
\* forgotten.
Started == [nodeView EXCEPT !.asked = <<>>, !.applied = <<>>, !.recalled = FALSE,
                            !.resizing = "none", !.replaced = 0, !.dispatched = {}]

\* The render queue, or the constructor when the queue has completed,
\* calls initEditor().
InitEditor ==
    /\ ~nodeView.handing
    /\ nodeView' = [initEditor(Started) EXCEPT !.recalled = nodeView.aceEditor]
    /\ UNCHANGED <<manager, panel, computed>>

\* The outer editor's selection moves into the node, and the outer editor
\* calls setSelection(anchor, head).
SetSelection(anchor, head) ==
    /\ ~nodeView.handing
    /\ anchor <= Len(nodeView.doc) /\ head <= Len(nodeView.doc)
    /\ nodeView' = setSelection([Started EXCEPT !.pmSelection = Some(<<anchor, head>>)],
                                anchor, head)
    /\ UNCHANGED <<manager, panel, computed>>

\* The outer document's node gets that text, and the outer editor calls
\* update(node). When update returns false the outer editor replaces the
\* view by a new one for the node.
Update(text) ==
    /\ ~nodeView.handing
    /\ text # nodeView.doc
    /\ IF nodeView.editSession
       THEN nodeView' = update([Started EXCEPT !.doc = text,
                                               !.pmSelection = mapSelection(@, text)],
                               text)
       ELSE \E isRenderCompleted \in BOOLEAN :
               nodeView' = construct(text, mapSelection(nodeView.pmSelection, text),
                                     isRenderCompleted)
    /\ UNCHANGED <<manager, panel, computed>>

\* The outer editor, having applied a transaction the view dispatched,
\* hands the new node to update(), before anything else happens.
UpdateDispatched ==
    /\ nodeView.handing
    /\ nodeView' = update([nodeView EXCEPT !.handing = FALSE], nodeView.doc)
    /\ UNCHANGED <<manager, panel, computed>>

\* The user types in the embedded editor: its text becomes that text.
AceInput(text) ==
    /\ ~nodeView.handing
    /\ nodeView.aceEditor /\ nodeView.focused
    /\ text # nodeView.value
    /\ nodeView' = setText(Started, text)
    /\ UNCHANGED <<manager, panel, computed>>

\* The user moves the selection of the embedded editor.
AceSelect(anchor, lead) ==
    /\ ~nodeView.handing
    /\ nodeView.aceEditor /\ nodeView.focused
    /\ anchor <= Len(nodeView.value) /\ lead <= Len(nodeView.value)
    /\ <<anchor, lead>> # nodeView.selection
    /\ nodeView' = setSelectionRange(Started, anchor, lead)
    /\ UNCHANGED <<manager, panel, computed>>

\* The user clicks into the embedded editor.
AceFocus ==
    /\ ~nodeView.handing
    /\ nodeView.aceEditor /\ ~nodeView.focused
    /\ nodeView' = focus(Started)
    /\ UNCHANGED <<manager, panel, computed>>

\* The embedded editor loses the focus: the handler of line 445 clears its
\* selection.
AceBlur ==
    /\ ~nodeView.handing
    /\ nodeView.aceEditor /\ nodeView.focused
    /\ nodeView' = LET blurred == [Started EXCEPT !.focused = FALSE]
                   IN IF blurred.editSession
                      THEN setSelectionRange(blurred, blurred.selection[2], blurred.selection[2])
                      ELSE blurred
    /\ UNCHANGED <<manager, panel, computed>>

\* The widths the element of a chunk editor takes.
MaxWidth == 3
Widths == 1..MaxWidth

\* window.setTimeout(...): the id of the new timeout, one that no pending
\* timeout of the view and not the view's resizeTimer has.
setTimeout(v) ==
    CHOOSE id \in 1..(Cardinality(v.timers) + 2) :
        /\ id \notin v.timers \cup {v.resizeTimer}
        /\ \A other \in 1..(id - 1) : other \in v.timers \cup {v.resizeTimer}

\* window.clearTimeout(id)
clearTimeout(v, id) == [v EXCEPT !.timers = @ \ {id}]

\* Mutant of debounceResize: the pending timeout is not cleared.
debounceResize_NoClear(v) ==
    LET id == setTimeout(v)
    IN [v EXCEPT !.timers = @ \cup {id}, !.resizeTimer = id, !.resizing = "debounced"]

\* debounceResize()
debounceResize(v) ==
    LET cleared == IF v.resizeTimer # 0 THEN clearTimeout(v, v.resizeTimer) ELSE v
        id == setTimeout(v)
    IN [cleared EXCEPT !.timers = @ \cup {id}, !.resizeTimer = id, !.resizing = "debounced"]

\* The function debounceResize() hands to window.setTimeout.
resizeTimeout(v) ==
    [v EXCEPT !.resizing = IF v.chunk /\ v.aceEditor /\ v.renderedWidth # v.offsetWidth
                           THEN "resized" ELSE "skipped",
              !.resizeTimer = 0]

\* The handler of the renderer's afterRender event.
afterRender(v) == IF v.chunk THEN [v EXCEPT !.renderedWidth = v.offsetWidth] ELSE v

\* destroy(): the view's subscriptions end.
destroy(v) == [v EXCEPT !.onResize = FALSE]

\* The editor is resized: the element takes that width, and a resize
\* event is emitted, which a subscribed view handles.
Resize(width) ==
    /\ ~nodeView.handing
    /\ nodeView' = LET resized == [Started EXCEPT !.offsetWidth = width]
                   IN IF resized.onResize THEN debounceResize(resized) ELSE resized
    /\ UNCHANGED <<manager, panel, computed>>

\* A pending timeout of the view runs.
ResizeTimeout(id) ==
    /\ ~nodeView.handing
    /\ id \in nodeView.timers
    /\ nodeView' = resizeTimeout(clearTimeout(Started, id))
    /\ UNCHANGED <<manager, panel, computed>>

\* The embedded editor has rendered.
AfterRender ==
    /\ ~nodeView.handing
    /\ nodeView.aceEditor
    /\ nodeView' = afterRender(Started)
    /\ UNCHANGED <<manager, panel, computed>>

\* The outer editor destroys the view.
Destroy ==
    /\ ~nodeView.handing
    /\ nodeView.onResize
    /\ nodeView' = destroy(Started)
    /\ UNCHANGED <<manager, panel, computed>>

----------------------------------------------------------------------------
(* load(): the call, the providers' loads settling, the completion.        *)

Calls == 1..MaxLoads
Idle == [pc |-> "idle", providersNeedUpdate |-> [i \in DOMAIN providers |-> None],
         failed |-> {}]
Done == [pc |-> "done", providersNeedUpdate |-> [i \in DOMAIN providers |-> None],
         failed |-> {}]

Init ==
    /\ sources = None
    /\ fuse = None
    /\ writable = None
    /\ items = [i \in DOMAIN providers |-> <<>>]
    /\ paths = [i \in DOMAIN providers |-> <<>>]
    /\ calls = [l \in Calls |-> Idle]
    /\ lastLoad = None
    /\ indexBuilds = 0
    /\ warnings = [i \in DOMAIN providers |-> None]
    /\ bibLaTeX = NotAsked
    /\ held = NothingHeld
    /\ panel = NoTree
    /\ nodeView = AceNodeView(<<>>, None)
    /\ computed = NotComputed

\* Mutant of LoadStart: writable is computed before the await.
LoadStart_WritableFirst(l) ==
    /\ calls[l].pc = "idle"
    /\ \A k \in Calls : k < l => calls[k].pc # "idle"
    /\ calls' = [calls EXCEPT ![l].pc = "awaiting"]
    /\ writable' = Some(shouldAllowWrites(paths))
    /\ UNCHANGED <<sources, fuse, items, paths, lastLoad, indexBuilds, delegation, held, uiState>>

\* load() up to its await: every provider's load is issued.
LoadStart(l) ==
    /\ calls[l].pc = "idle"
    /\ \A k \in Calls : k < l => calls[k].pc # "idle"
    /\ calls' = [calls EXCEPT ![l].pc = "awaiting"]
    /\ UNCHANGED <<sources, fuse, writable, items, paths, lastLoad, indexBuilds, delegation, held,
                   uiState>>

\* Provider i's load for call l resolves true: its data changed.
ProviderLoadChanged(l, i, lists) ==
    /\ calls[l].pc = "awaiting"
    /\ calls[l].providersNeedUpdate[i] = None
    /\ \E new \in lists[i] : items' = [items EXCEPT ![i] = new]
    /\ calls' = [calls EXCEPT ![l].providersNeedUpdate[i] = Some(TRUE)]
    /\ UNCHANGED <<sources, fuse, writable, paths, lastLoad, indexBuilds, delegation, held,
                   uiState>>

\* Provider i's load for call l resolves false: nothing new.
ProviderLoadUnchanged(l, i) ==
    /\ calls[l].pc = "awaiting"
    /\ calls[l].providersNeedUpdate[i] = None
    /\ calls' = [calls EXCEPT ![l].providersNeedUpdate[i] = Some(FALSE)]
    /\ UNCHANGED <<sources, fuse, writable, items, paths, lastLoad, indexBuilds, delegation, held,
                   uiState>>

\* Provider i's load for call l fails: the provider keeps what it had and
\* resolves false. The manager sees the false only; failed records which
\* of the false answers were failures.
ProviderLoadFails(l, i) ==
    /\ calls[l].pc = "awaiting"
    /\ calls[l].providersNeedUpdate[i] = None
    /\ calls' = [calls EXCEPT ![l].providersNeedUpdate[i] = Some(FALSE),
                              ![l].failed = @ \cup {i}]
    /\ UNCHANGED <<sources, fuse, writable, items, paths, lastLoad, indexBuilds, delegation, held,
                   uiState>>

Settled(l) == \A i \in DOMAIN providers : calls[l].providersNeedUpdate[i] # None
AnyChanged(l) == \E i \in DOMAIN providers : calls[l].providersNeedUpdate[i] = Some(TRUE)

\* Mutant of updateIndex: the new index is built and not stored.
updateIndex_NotStored(bibSources) ==
    /\ UNCHANGED fuse
    /\ indexBuilds' = indexBuilds + 1

\* updateIndex(bibSources)
updateIndex(bibSources) ==
    /\ fuse' = Some(createIndex(bibSources))
    /\ indexBuilds' = indexBuilds + 1

\* Mutant of LoadComplete: a generation check. A call that completes after
\* a later-issued call has completed commits nothing.
LoadComplete_StaleDropped(l) ==
    /\ calls[l].pc = "awaiting"
    /\ Settled(l)
    /\ \E answered \in [DOMAIN providers -> UNION {PathLists[i] : i \in DOMAIN providers}] :
          /\ \A i \in DOMAIN providers : answered[i] \in PathLists[i]
          /\ paths' = answered
    /\ LET stale == \E k \in Calls : k > l /\ calls[k].pc = "done"
           providersNeedUpdate == [i \in DOMAIN providers |-> Get(calls[l].providersNeedUpdate[i])]
       IN /\ writable' = IF stale THEN writable ELSE Some(shouldAllowWrites(paths'))
          /\ IF ~stale /\ reduceOr(providersNeedUpdate)
             THEN /\ sources' = Some(concat(items))
                  /\ updateIndex(Get(sources'))
                  /\ held' = Released(held)
             ELSE UNCHANGED <<sources, fuse, indexBuilds, held>>
    /\ calls' = [calls EXCEPT ![l] = Done]
    /\ lastLoad' = Some([call |-> l, failed |-> calls[l].failed,
                         rebuilt |-> AnyChanged(l)])
    /\ UNCHANGED <<items, delegation, uiState>>

\* load() after its await, in one turn: writable, then the aggregate and the
\* index when a provider asked for an update.
LoadComplete(l) ==
    /\ calls[l].pc = "awaiting"
    /\ Settled(l)
    /\ \E answered \in [DOMAIN providers -> UNION {PathLists[i] : i \in DOMAIN providers}] :
          /\ \A i \in DOMAIN providers : answered[i] \in PathLists[i]
          /\ paths' = answered
    /\ writable' = Some(shouldAllowWrites(paths'))
    /\ LET providersNeedUpdate == [i \in DOMAIN providers |-> Get(calls[l].providersNeedUpdate[i])]
           needsIndexUpdate == reduceOr(providersNeedUpdate)
       IN IF needsIndexUpdate
          THEN /\ sources' = Some(concat(items))
               /\ updateIndex(Get(sources'))
               /\ held' = Released(held)
          ELSE UNCHANGED <<sources, fuse, indexBuilds, held>>
    /\ calls' = [calls EXCEPT ![l] = Done]
    /\ lastLoad' = Some([call |-> l, failed |-> calls[l].failed,
                         rebuilt |-> AnyChanged(l)])
    /\ UNCHANGED <<items, delegation, uiState>>

Next ==
    \/ \E l \in Calls : LoadStart(l)
    \/ \E l \in Calls, i \in DOMAIN providers : ProviderLoadChanged(l, i, Catalogue)
    \/ \E l \in Calls, i \in DOMAIN providers : ProviderLoadUnchanged(l, i)
    \/ \E l \in Calls, i \in DOMAIN providers : ProviderLoadFails(l, i)
    \/ \E l \in Calls : LoadComplete(l)

Spec == Init /\ [][Next]_vars

----------------------------------------------------------------------------
(* The same manager over bibliographies around the search limit: one       *)
(* load() whose local provider can also hold limit - BulkSpare to          *)
(* limit + BulkSpare matching sources.                                     *)

BulkSpare == 2
BulkCalls == {1}
BulkLocalLists == LocalLists \cup {Bulk(n) : n \in (limit - BulkSpare)..(limit + BulkSpare)}
BulkCatalogue == <<BulkLocalLists, RemoteLists>>

NextBulk ==
    \/ \E l \in BulkCalls : LoadStart(l)
    \/ \E l \in BulkCalls, i \in DOMAIN providers : ProviderLoadChanged(l, i, BulkCatalogue)
    \/ \E l \in BulkCalls, i \in DOMAIN providers : ProviderLoadUnchanged(l, i)
    \/ \E l \in BulkCalls, i \in DOMAIN providers : ProviderLoadFails(l, i)
    \/ \E l \in BulkCalls : LoadComplete(l)

SpecBulk == Init /\ [][NextBulk]_vars

----------------------------------------------------------------------------
(* The manager's delegation to its providers, apart from loading.          *)

ExportIds == {"a1", "c1"}
ExportProviders == {None, Some(""), Some(kLocalBiliographyProviderKey),
                    Some(kZoteroProviderKey), Some("crossref")}

NextProviders ==
    \/ \E id \in ExportIds, csl \in CSLs, provider \in ExportProviders :
          generateBibLaTeX(id, csl, provider)
    \/ ProviderGenerated
    \/ \E i \in DOMAIN providers : ProviderWarns(i)

SpecProviders == Init /\ [][NextProviders]_vars

----------------------------------------------------------------------------
(* A consumer that keeps and alters the lists it is returned, next to two  *)
(* load() calls.                                                           *)

SnapshotCalls == {1, 2}
SnapshotQueries == {None, Some("smith")}
SnapshotProviders == {None, Some(kZoteroProviderKey)}
SnapshotCollections == {None, Some("c1")}

NextSnapshots ==
    \/ \E l \in SnapshotCalls : LoadStart(l)
    \/ \E l \in SnapshotCalls, i \in DOMAIN providers : ProviderLoadChanged(l, i, Catalogue)
    \/ \E l \in SnapshotCalls, i \in DOMAIN providers : ProviderLoadUnchanged(l, i)
    \/ \E l \in SnapshotCalls : LoadComplete(l)
    \/ \E q \in SnapshotQueries, p \in SnapshotProviders, c \in SnapshotCollections :
          SearchReturns(q, p, c)
    \/ ConsumerAlters

SpecSnapshots == Init /\ [][NextSnapshots]_vars

----------------------------------------------------------------------------
(* Consumers issuing the queries between the turns of two load() calls.    *)

QueryCalls == {1, 2}
QueryIds == {"a1", "c1"}
QueryDois == {"10.1/y", "10.1/z"}

NextQueries ==
    \/ \E l \in QueryCalls : LoadStart(l)
    \/ \E l \in QueryCalls, i \in DOMAIN providers : ProviderLoadChanged(l, i, Catalogue)
    \/ \E l \in QueryCalls, i \in DOMAIN providers : ProviderLoadUnchanged(l, i)
    \/ \E l \in QueryCalls : LoadComplete(l)
    \/ \E q \in SnapshotQueries, p \in SnapshotProviders, c \in SnapshotCollections :
          SearchReturns(q, p, c)
    \/ \E id \in QueryIds : LookupReturns(findIdInLocalBibliography(id))
    \/ \E doi \in QueryDois : LookupReturns(findDoiInLocalBibliography(doi))
    \/ LocalSourcesReturns

SpecQueries == Init /\ [][NextQueries]_vars

\* The panel builds provider nodes over whatever collections the providers
\* list.
NextTree ==
    \E type \in ProviderKeys, containers \in CollectionLists : ToTree(type, containers)

SpecTree == Init /\ [][NextTree]_vars

\* The outer editor, the render queue and the user act on one node view.
NextNodeView ==
    \/ InitEditor
    \/ \E anchor \in Offsets, head \in Offsets : SetSelection(anchor, head)
    \/ \E text \in Texts : Update(text)
    \/ UpdateDispatched
    \/ \E text \in Texts : AceInput(text)
    \/ \E anchor \in Offsets, lead \in Offsets : AceSelect(anchor, lead)
    \/ AceFocus
    \/ AceBlur

SpecNodeView == Init /\ [][NextNodeView]_vars

\* The editor is resized while the render queue, the window's timeouts and
\* the embedded editor's renderer act on one node view.
NextResize ==
    \/ InitEditor
    \/ \E width \in Widths : Resize(width)
    \/ \E id \in nodeView.timers : ResizeTimeout(id)
    \/ AfterRender
    \/ Destroy

SpecResize == Init /\ [][NextResize]_vars

\* computeChange() is called with any two texts.
NextChange ==
    \E oldVal \in ChangeTexts, newVal \in ChangeTexts : ComputeChange(oldVal, newVal)

SpecChange == Init /\ [][NextChange]_vars

----------------------------------------------------------------------------
(* What the properties below speak about.                                  *)

\* The arguments a consumer can pass.
Queries == {None, Some(""), Some("smith")}
ProviderArgs == {None, Some(""), Some(kLocalBiliographyProviderKey), Some(kZoteroProviderKey)}
CollectionArgs == {None, Some(""), Some("c1"), Some("c2")}
IdArgs == {"a1", "b1", "c1", "d1", "zz"}
DoiArgs == {"10.1/x", "10.1/y", "10.1/z", "10.1/none"}

\* The aggregate source list, empty while there is none.
Aggregate == IF sources = None THEN <<>> ELSE Get(sources)

SomeLoadCompleted == \E l \in Calls : calls[l].pc = "done"

\* Call l completes in this step.
Completing(l) == calls[l].pc = "awaiting" /\ calls'[l].pc = "done"

IdsOf(list) == {list[k].id : k \in DOMAIN list}

\* a[k] is the first element of list a with its id.
IsFirst(a, k) == \A j \in 1..(k - 1) : a[j].id # a[k].id

\* r holds, for every id of list a, the first element of a with that id and
\* nothing else, in the order of a.
FirstOccurrencesOf(r, a) ==
    /\ \A i, j \in DOMAIN r : i < j => r[i].id # r[j].id
    /\ Len(r) = Cardinality(IdsOf(a))
    /\ \A i \in DOMAIN r : \E k \in DOMAIN a : IsFirst(a, k) /\ a[k] = r[i]
    /\ \A i, j \in DOMAIN r : i < j =>
          \E k1, k2 \in DOMAIN a : /\ k1 < k2
                                   /\ IsFirst(a, k1) /\ a[k1] = r[i]
                                   /\ IsFirst(a, k2) /\ a[k2] = r[j]

OfLocal(list) ==
    LET isLocal(e) == e.providerKey = kLocalBiliographyProviderKey
    IN SelectSeq(list, isLocal)

----------------------------------------------------------------------------
(* Properties.                                                             *)

\* C1: while the bibliography is writable, allSources() has no two sources
\* with the same id, holds for each id of the aggregate its first occurrence
\* in aggregate order (local before remote), and is as long as the aggregate
\* has distinct ids.
C1_DedupFirstWins == isWritable => FirstOccurrencesOf(allSources, Aggregate)

\* C1 witness: local [a1, b1] and remote [a1, c1] are loaded, writable, and
\* allSources() is [a1 (local), b1, c1].
C1_Witness ==
    /\ isWritable
    /\ Len(Aggregate) = 4
    /\ <<Aggregate[1].id, Aggregate[2].id, Aggregate[3].id, Aggregate[4].id>>
         = <<"a1", "b1", "a1", "c1">>
    /\ allSources = <<Aggregate[1], Aggregate[2], Aggregate[4]>>
    /\ allSources[1].providerKey = kLocalBiliographyProviderKey

\* C2: when a load has completed and the bibliography is not writable,
\* allSources() is exactly the local provider's sources of the aggregate,
\* deduplicated by id in aggregate order, and holds no other provider's.
C2_NotWritableLocalOnly ==
    (SomeLoadCompleted /\ ~isWritable) =>
        /\ FirstOccurrencesOf(allSources, OfLocal(Aggregate))
        /\ \A i \in DOMAIN allSources :
              allSources[i].providerKey = kLocalBiliographyProviderKey

\* C2 witness: not writable, local [a1, b1] and a non-empty remote list are
\* loaded, and allSources() is [a1, b1].
C2_Witness ==
    /\ SomeLoadCompleted /\ ~isWritable
    /\ Len(Aggregate) > 2
    /\ \E k \in DOMAIN Aggregate : Aggregate[k].providerKey = kZoteroProviderKey
    /\ Len(allSources) = 2
    /\ <<allSources[1].id, allSources[2].id>> = <<"a1", "b1">>

\* C3: a load() that completes after a provider reported a change leaves
\* the aggregate equal to the providers' items() at that moment, local
\* first, and the index rebuilt from exactly that list.
C3_ChangedRebuilds ==
    [][\A l \in Calls : (Completing(l) /\ AnyChanged(l)) =>
          /\ sources' = Some(items[1] \o items[2])
          /\ fuse' = Some([docs |-> items[1] \o items[2]])
          /\ indexBuilds' = indexBuilds + 1]_vars

\* C3 witness: the aggregate and the index hold both providers' non-empty
\* lists, the local one first.
C3_Witness ==
    /\ items[1] # <<>> /\ items[2] # <<>>
    /\ sources = Some(items[1] \o items[2])
    /\ fuse = Some([docs |-> Get(sources)])
    /\ indexBuilds > 0

\* C4: a load() that completes after every provider reported no change
\* leaves the aggregate and the index as they were and does not rebuild.
C4_UnchangedKeeps ==
    [][\A l \in Calls : (Completing(l) /\ ~AnyChanged(l)) =>
          /\ sources' = sources
          /\ fuse' = fuse
          /\ indexBuilds' = indexBuilds]_vars

\* C4 witness: more loads have completed than indexes were built, and the
\* one aggregate built is still there.
C4_Witness ==
    /\ Cardinality({l \in Calls : calls[l].pc = "done"}) > indexBuilds
    /\ indexBuilds = 1
    /\ sources # None /\ Get(sources) # <<>>
    /\ fuse = Some([docs |-> Get(sources)])

\* C5: after every completed load(), isWritable() is true exactly when the
\* providers' bibliography files are none or one of them is writable.
C5_WritableLaw ==
    SomeLoadCompleted =>
        LET files == paths[1] \o paths[2]
        IN /\ writable # None
           /\ isWritable = (files = <<>> \/ \E k \in DOMAIN files : files[k].writable)

\* C5 witness: a load completed with no provider reporting a change and no
\* bibliography file, and the bibliography is writable.
C5_Witness ==
    /\ SomeLoadCompleted
    /\ sources = None
    /\ paths[1] \o paths[2] = <<>>
    /\ isWritable

\* C6: before any load() has completed every query returns an empty list
\* (the lookups undefined) and none raises.
C6_UnloadedEmpty ==
    ~SomeLoadCompleted =>
        /\ allSources = <<>>
        /\ localSources = <<>>
        /\ ~hasSources
        /\ \A p \in ProviderArgs \ {None} :
              /\ sourcesForProvider(Get(p)) = <<>>
              /\ \A c \in CollectionArgs \ {None} :
                    sourcesForProviderCollection(Get(p), Get(c)) = <<>>
        /\ \A id \in IdArgs : findIdInLocalBibliography(id) = None
        /\ \A doi \in DoiArgs : findDoiInLocalBibliography(doi) = None
        /\ \A q \in Queries, p \in ProviderArgs, c \in CollectionArgs :
              search(q, p, c) = <<>>

\* C6 witness: no load has completed although both providers already hold
\* items.
C6_Witness ==
    /\ ~SomeLoadCompleted
    /\ items[1] # <<>> /\ items[2] # <<>>

Unloaded == sources = None /\ fuse = None /\ writable = None
Loaded == sources # None /\ fuse # None /\ writable # None

\* C7 as stated: the manager is unloaded or loaded, and loaded once a load
\* has completed.
C7_TwoStates ==
    /\ Unloaded \/ Loaded
    /\ SomeLoadCompleted => Loaded

\* C7 as amended: the aggregate is present exactly when the index is, which
\* is exactly when an index was built; writable is computed exactly when a
\* load has completed; an aggregate implies a computed writable.
C7_ThreeStates ==
    /\ (sources = None) = (fuse = None)
    /\ (sources # None) = (indexBuilds > 0)
    /\ (fuse # None => Get(fuse).docs = Get(sources))
    /\ (writable # None) = SomeLoadCompleted
    /\ Unloaded \/ Loaded \/ (sources = None /\ fuse = None /\ writable # None)

\* C7 witness: a load has completed, writable is computed, and there is
\* neither an aggregate nor an index.
C7_Witness ==
    /\ SomeLoadCompleted
    /\ writable # None
    /\ sources = None /\ fuse = None

\* C8 as stated: with no query or an empty one, search is the unfiltered
\* list of the filters given, for every provider and collection key.
C8_EmptyQueryIdentity ==
    \A q \in {None, Some("")} :
        /\ search(q, None, None) = allSources
        /\ \A p \in ProviderArgs \ {None} :
              /\ search(q, p, None) = sourcesForProvider(Get(p))
              /\ \A c \in CollectionArgs \ {None} :
                    search(q, p, c) = sourcesForProviderCollection(Get(p), Get(c))

\* C8 as amended: the same for non-empty keys; an empty provider key counts
\* as no provider key and an empty collection key as no collection key, and
\* a collection key without a provider key is ignored.
C8_EmptyQueryIdentityNonEmptyKeys ==
    \A q \in {None, Some("")} :
        /\ \A c \in CollectionArgs :
              /\ search(q, None, c) = allSources
              /\ search(q, Some(""), c) = allSources
        /\ \A p \in ProviderArgs \ {None, Some("")} :
              /\ search(q, p, None) = sourcesForProvider(Get(p))
              /\ search(q, p, Some("")) = sourcesForProvider(Get(p))
              /\ \A c \in CollectionArgs \ {None, Some("")} :
                    search(q, p, c) = sourcesForProviderCollection(Get(p), Get(c))

\* C8 witness: more than 1000 sources are listed for an empty query, and
\* the three unfiltered lists differ from one another and from what the
\* index returns for a query.
C8_Witness ==
    /\ Len(search(Some(""), None, None)) > limit
    /\ Len(search(None, Some(kLocalBiliographyProviderKey), None)) > limit
    /\ Len(allSources) > Len(sourcesForProvider(kZoteroProviderKey))
    /\ Len(sourcesForProvider(kZoteroProviderKey))
         > Len(sourcesForProviderCollection(kZoteroProviderKey, "c2"))
    /\ sourcesForProviderCollection(kZoteroProviderKey, "c2") # <<>>
    /\ search(Some(""), Some(kZoteroProviderKey), Some("c2"))
         = sourcesForProviderCollection(kZoteroProviderKey, "c2")
    /\ search(Some(""), None, None) # search(Some("smith"), None, None)

\* The loaded sources a query matches.
Matches(query) ==
    LET hit(e) == Score(query, e) # NoMatch
    IN SelectSeq(Aggregate, hit)

\* The limit best-ranked matches of the index.
BestRanked(query) == FuseSearch(Get(fuse), query, limit)

\* C9 as stated: a non-empty global query matching more than 1000 loaded
\* sources returns exactly 1000 results.
C9_ExactlyLimit ==
    \A q \in Queries \ {None, Some("")} :
        Len(Matches(Get(q))) > limit => Len(search(q, None, None)) = limit

\* C9 as amended: such a query returns at most 1000 results, and exactly
\* 1000 when the bibliography is writable and the 1000 best-ranked matches
\* have distinct ids.
C9_LimitWhenDistinct ==
    \A q \in Queries \ {None, Some("")} :
        Len(Matches(Get(q))) > limit =>
            /\ Len(search(q, None, None)) <= limit
            /\ (isWritable /\ Cardinality(IdsOf(BestRanked(Get(q)))) = limit)
                  => Len(search(q, None, None)) = limit

\* C9 witness: writable, more than 1000 loaded sources match from both
\* providers, and the global search returns 1000.
C9_Witness ==
    /\ isWritable
    /\ Len(Matches("smith")) > limit
    /\ \E k \in DOMAIN Aggregate : Aggregate[k].providerKey = kZoteroProviderKey
    /\ Cardinality(IdsOf(BestRanked("smith"))) = limit
    /\ Len(search(Some("smith"), None, None)) = limit

\* C10: for a non-empty query, whatever the provider and collection keys,
\* search returns at most 1000 sources.
C10_AtMostLimit ==
    \A q \in Queries \ {None, Some("")}, p \in ProviderArgs, c \in CollectionArgs :
        Len(search(q, p, c)) <= limit

\* C10 witness: more than 1000 loaded sources match and the search returns
\* 1000 of them.
C10_Witness ==
    /\ Len(Matches("smith")) > limit
    /\ Len(allSources) > limit
    /\ Len(search(Some("smith"), Some(kLocalBiliographyProviderKey), None)) = limit

\* C11: when a load has completed and the bibliography is not writable, a
\* non-empty query returns the index matches of the local provider,
\* deduplicated by id in rank order, and no other provider's source; a
\* matching local source is not dropped.
C11_NotWritableLocalMatches ==
    (fuse # None /\ ~isWritable) =>
        \A q \in Queries \ {None, Some("")} :
            /\ FirstOccurrencesOf(search(q, None, None), OfLocal(BestRanked(Get(q))))
            /\ \A k \in DOMAIN search(q, None, None) :
                  search(q, None, None)[k].providerKey = kLocalBiliographyProviderKey

\* C12: a resolved generateBibLaTeX() call holds the provider's text when a
\* provider has the key given and its generator yielded a value, and
\* otherwise the generic conversion of (id, csl); it is never undefined.
C12_FallbackAlwaysAttempted ==
    bibLaTeX.pc = "resolved" =>
        /\ bibLaTeX.result # None
        /\ bibLaTeX.result =
              IF findProvider(bibLaTeX.provider) # None /\ bibLaTeX.yielded # None
              THEN bibLaTeX.yielded
              ELSE Some(toBibLaTeX(bibLaTeX.id, bibLaTeX.csl))

\* C13: a step changes writable, the aggregate or the index, or completes a
\* load() call, only as the completion of a call all of whose providers'
\* loads have settled, failed ones included; a call with an unsettled
\* provider stays pending.
C13_JoinAll ==
    [][/\ (writable' # writable \/ sources' # sources \/ fuse' # fuse
              \/ indexBuilds' # indexBuilds)
          => \E l \in Calls :
                /\ Completing(l)
                /\ \A i \in DOMAIN providers : calls[l].providersNeedUpdate[i] # None
       /\ \A l \in Calls :
             (calls[l].pc # "done" /\ calls'[l].pc = "done")
             => /\ calls[l].pc = "awaiting"
                /\ \A i \in DOMAIN providers : calls[l].providersNeedUpdate[i] # None]_vars

\* C13 witness: a call is pending with one provider's load failed and the
\* other's not settled, and nothing is committed.
C13_Witness ==
    /\ \E l \in Calls :
          /\ calls[l].pc = "awaiting"
          /\ calls[l].failed # {}
          /\ \E i \in DOMAIN providers : calls[l].providersNeedUpdate[i] = None
    /\ writable = None /\ sources = None /\ fuse = None

\* C14: a provider's load that fails leaves its items as they were; a
\* load() call with a failed provider and another that reported a change
\* can complete once settled, and completing makes the aggregate the
\* providers' items of that moment, the failed provider's kept ones and the
\* other's new ones, and rebuilds the index from it.
C14_FailureTolerated ==
    [][\A l \in Calls :
          /\ (calls[l].pc = "awaiting" /\ calls'[l].pc = "awaiting"
                /\ calls'[l].failed # calls[l].failed) => items' = items
          /\ (calls[l].pc = "awaiting" /\ Settled(l) /\ calls[l].failed # {})
                => ENABLED LoadComplete(l)
          /\ (Completing(l) /\ calls[l].failed # {} /\ AnyChanged(l))
                => /\ items' = items
                   /\ sources' = Some(items[1] \o items[2])
                   /\ fuse' = Some([docs |-> items[1] \o items[2]])
                   /\ lastLoad' = Some([call |-> l, failed |-> calls[l].failed,
                                        rebuilt |-> TRUE])]_vars

\* C14 witness: the call that completed last had the local provider's load
\* fail and the remote provider report a change; the aggregate holds the
\* local items an earlier call loaded and the remote provider's items.
C14_Witness ==
    /\ lastLoad # None
    /\ Get(lastLoad).failed = {1}
    /\ Get(lastLoad).rebuilt
    /\ calls[Get(lastLoad).call].pc = "done"
    /\ items[1] # <<>> /\ items[2] # <<>>
    /\ sources = Some(items[1] \o items[2])
    /\ indexBuilds = 2

\* C15: whichever load() call completes, and whether or not a call issued
\* after it has completed already, its completion assigns writable from the
\* bibliography files it is answered and, if a provider reported a change
\* to it, the aggregate from the providers' items of that moment; no other
\* step changes either, so after both calls the two are as the call that
\* completed last left them.
C15_LastCompletionWins ==
    [][/\ \A l \in Calls : Completing(l) =>
             /\ lastLoad' # None /\ Get(lastLoad').call = l
             /\ writable' = Some(shouldAllowWrites(paths'))
             /\ AnyChanged(l) => sources' = Some(items[1] \o items[2])
             /\ ~AnyChanged(l) => sources' = sources
       /\ (\A l \in Calls : ~Completing(l)) => UNCHANGED <<writable, sources, lastLoad>>]_vars

\* C15 witness: both calls have completed and rebuilt, the first-issued one
\* last, and the aggregate is the one it assigned.
C15_Witness ==
    /\ \A l \in Calls : calls[l].pc = "done"
    /\ lastLoad # None
    /\ Get(lastLoad).call = 1
    /\ Get(lastLoad).rebuilt
    /\ indexBuilds >= 2
    /\ sources = Some(items[1] \o items[2])
    /\ Get(sources) # <<>>
    /\ writable = Some(shouldAllowWrites(paths))

NoDuplicateIds(list) == \A i, j \in DOMAIN list : i < j => list[i].id # list[j].id

\* C16: sourcesForProvider(k) is the elements of allSources() with
\* providerKey k, in the same order; sourcesForProviderCollection(p, c) is
\* the elements of sourcesForProvider(p) whose collectionKeys contain c;
\* neither holds an id twice, and for a key other than the local provider's
\* both are empty while the bibliography is not writable.
C16_ProviderScopes ==
    \A p \in ProviderArgs \ {None} :
        LET k == Get(p)
            ofProvider(item) == item.providerKey = k
        IN /\ sourcesForProvider(k) = SelectSeq(allSources, ofProvider)
           /\ NoDuplicateIds(sourcesForProvider(k))
           /\ (~isWritable /\ k # kLocalBiliographyProviderKey)
                 => sourcesForProvider(k) = <<>>
           /\ \A cArg \in CollectionArgs \ {None} :
                 LET c == Get(cArg)
                     inCollection(item) == c \in item.collectionKeys
                 IN /\ sourcesForProviderCollection(k, c)
                         = SelectSeq(sourcesForProvider(k), inCollection)
                    /\ NoDuplicateIds(sourcesForProviderCollection(k, c))
                    /\ (~isWritable /\ k # kLocalBiliographyProviderKey)
                          => sourcesForProviderCollection(k, c) = <<>>

\* C16 witness: writable, a source of the aggregate is hidden by an earlier
\* one with its id, the remote provider's list has two sources and its
\* collection c2 the first of them only.
C16_Witness ==
    /\ isWritable
    /\ Len(Aggregate) > Len(allSources)
    /\ sourcesForProvider(kLocalBiliographyProviderKey) # <<>>
    /\ Len(sourcesForProvider(kZoteroProviderKey)) = 2
    /\ sourcesForProviderCollection(kZoteroProviderKey, "c2")
         = <<sourcesForProvider(kZoteroProviderKey)[1]>>

\* C17: findIdInLocalBibliography(id) returns a source of the aggregate with
\* that id and the local provider key when the aggregate holds a local
\* source with that id, and undefined otherwise, also when another
\* provider's source has the id.
C17_FindIdLocal ==
    \A id \in IdArgs :
        LET found == findIdInLocalBibliography(id)
            isLocalWithId(e) == e.id = id /\ e.providerKey = kLocalBiliographyProviderKey
        IN IF \E k \in DOMAIN Aggregate : isLocalWithId(Aggregate[k])
           THEN /\ found # None
                /\ isLocalWithId(Get(found))
                /\ \E k \in DOMAIN Aggregate : Aggregate[k] = Get(found)
           ELSE found = None

\* C17 witness: writable, a1 is held by both providers and c1 by the remote
\* one only; a1 is found as the local source and c1 is not found.
C17_Witness ==
    /\ isWritable
    /\ \E k \in DOMAIN Aggregate :
          Aggregate[k].id = "a1" /\ Aggregate[k].providerKey = kZoteroProviderKey
    /\ \E k \in DOMAIN allSources : allSources[k].id = "c1"
    /\ findIdInLocalBibliography("a1") = Some(Aggregate[1])
    /\ Aggregate[1].providerKey = kLocalBiliographyProviderKey
    /\ findIdInLocalBibliography("c1") = None

\* C18: findDoiInLocalBibliography(doi) returns a local source with that DOI
\* whenever a local source of the aggregate has that DOI, also when several
\* local sources share an id, and undefined only if none has it.
C18_FindDoiLocal ==
    \A doi \in DoiArgs :
        LET found == findDoiInLocalBibliography(doi)
            isLocalWithDoi(e) ==
                e.DOI = Some(doi) /\ e.providerKey = kLocalBiliographyProviderKey
        IN IF \E k \in DOMAIN Aggregate : isLocalWithDoi(Aggregate[k])
           THEN found # None /\ isLocalWithDoi(Get(found))
           ELSE found = None

\* C19: warning() is the message of the first provider in registration
\* order whose warningMessage() is non-empty, and undefined when there is
\* none; warningForProvider(key) is the warningMessage() of the provider
\* with that key, and undefined when the key is absent or no provider's.
C19_Warnings ==
    LET nonEmpty(w) == w # None /\ w # Some("")
    IN /\ IF nonEmpty(warnings[1]) THEN warning = warnings[1]
          ELSE IF nonEmpty(warnings[2]) THEN warning = warnings[2]
          ELSE warning = None
       /\ \A key \in ExportProviders :
             IF key # None /\ \E i \in DOMAIN providers : providers[i] = Get(key)
             THEN \A i \in DOMAIN providers :
                     providers[i] = Get(key) => warningForProvider(key) = warnings[i]
             ELSE warningForProvider(key) = None

\* C19 witness: both providers have a warning, warning() is the local
\* provider's, and warningForProvider of the remote key the other one.
C19_Witness ==
    /\ warnings[1] = Some("Unable to read bibliography")
    /\ warnings[2] = Some("Unable to reach Zotero")
    /\ warning = warnings[1]
    /\ warningForProvider(Some(kZoteroProviderKey)) = warnings[2]
    /\ warningForProvider(Some("crossref")) = None

\* C20: only a provider's own load changes its items; the list a consumer
\* holds is never the manager's aggregate array; a step of load() leaves the
\* held list as it was; and the consumer altering the list it holds leaves
\* the providers' items and the aggregate, the index and writable that every
\* query reads, and with them what allSources() and a search return, as
\* they were.
C20_Snapshots ==
    [][/\ items' # items =>
             \E l \in SnapshotCalls, i \in DOMAIN providers :
                /\ calls[l].providersNeedUpdate[i] = None
                /\ calls'[l].providersNeedUpdate[i] = Some(TRUE)
                /\ \A j \in DOMAIN providers : j # i => items'[j] = items[j]
       /\ held'.returned => held'.array = FreshArray
       /\ calls' # calls => held'.list = held.list
       /\ (held.returned /\ held'.altered /\ ~held.altered) =>
             /\ held'.list # held.list
             /\ UNCHANGED <<items, sources, fuse, writable>>
             /\ allSources' = allSources
             /\ \A q \in SnapshotQueries \ {None} :
                   search(q, None, None)' = search(q, None, None)]_vars

\* C20 witness: the consumer was returned the whole writable bibliography
\* and removed its first source; a load() completed afterwards with a
\* different aggregate; allSources() is not what the consumer holds.
C20_Witness ==
    /\ held.returned /\ held.altered
    /\ Len(held.list) = 2
    /\ isWritable
    /\ Len(allSources) = 3
    /\ allSources[1].id = "a1"
    /\ \A k \in DOMAIN held.list : held.list[k].id # "a1"
    /\ \E k \in DOMAIN held.list : \A j \in DOMAIN allSources : allSources[j] # held.list[k]
    /\ \A l \in SnapshotCalls : calls[l].pc = "done"
    /\ indexBuilds = 2

\* C21: before and after every step the index is present exactly when the
\* aggregate is, and is built from exactly the aggregate; a step that
\* changes writable, the aggregate or the index is the completion of one
\* load() call, which leaves writable computed from the files it was
\* answered and, if it changes the aggregate, the index over the new one.
C21_IndexOfAggregate ==
    [][/\ (sources = None) = (fuse = None)
       /\ (sources' = None) = (fuse' = None)
       /\ fuse # None => Get(fuse).docs = Get(sources)
       /\ fuse' # None => Get(fuse').docs = Get(sources')
       /\ (writable' # writable \/ sources' # sources \/ fuse' # fuse) =>
             /\ Cardinality({l \in Calls : Completing(l)}) = 1
             /\ writable' = Some(shouldAllowWrites(paths'))
             /\ sources' # sources => indexBuilds' = indexBuilds + 1
             /\ fuse' # fuse => sources' # sources]_vars

\* C21 witness: a load() has committed and another is pending after a
\* provider changed its items; writable, the aggregate and the index over
\* it are those of the completed call, not yet the provider's new items.
C21_Witness ==
    /\ writable # None
    /\ sources # None /\ Get(sources) # <<>>
    /\ fuse = Some([docs |-> Get(sources)])
    /\ Get(sources) # items[1] \o items[2]
    /\ \E l \in Calls : calls[l].pc = "awaiting" /\ AnyChanged(l)

\* C22: a step changes the aggregate, the index or writable only if it is
\* the completion of a load() call; the steps in which a consumer is
\* returned the result of a search, a listing or a lookup leave all three
\* as they were; and an aggregate that is present stays present.
C22_OnlyLoadWrites ==
    [][/\ (sources' # sources \/ fuse' # fuse \/ writable' # writable)
             => \E l \in QueryCalls : Completing(l)
       /\ held' # held => UNCHANGED <<sources, fuse, writable>>
       /\ sources # None => sources' # None
       /\ fuse # None => fuse' # None
       /\ writable # None => writable' # None]_vars

\* C22 witness: with an aggregate loaded and a second load() pending, a
\* consumer holds the source a lookup found.
C22_Witness ==
    /\ sources # None /\ fuse # None /\ writable # None
    /\ held.returned
    /\ Len(held.list) = 1
    /\ held.list = findIdInLocalBibliography("a1")
    /\ \E l \in QueryCalls : calls[l].pc = "awaiting"
    /\ indexBuilds = 1

\* No load() call is between its start and its completion.
NoLoadInFlight == \A l \in Calls : calls[l].pc # "awaiting"

\* C23: whenever no load() call is in flight and a call has completed with a
\* reported change (an index was built), the aggregate is the providers'
\* current items, local first.
C23_QuiescentAggregate ==
    (NoLoadInFlight /\ indexBuilds > 0) => sources = Some(items[1] \o items[2])

\* C23 witness: both calls have completed, the first-issued one last and
\* without a reported change; the aggregate, built once by the other call,
\* holds both providers' current items.
C23_Witness ==
    /\ \A l \in Calls : calls[l].pc = "done"
    /\ indexBuilds = 1
    /\ lastLoad = Some([call |-> 1, failed |-> {}, rebuilt |-> FALSE])
    /\ items[1] # <<>> /\ items[2] # <<>>
    /\ sources = Some(items[1] \o items[2])

\* C24: for every non-empty query, every source search(query) returns is an
\* element of allSources(), the same provider's copy.
C24_SearchWithinListing ==
    \A q \in Queries \ {None, Some("")} :
        \A k \in DOMAIN search(q, None, None) :
            \E j \in DOMAIN allSources : allSources[j] = search(q, None, None)[k]

\* C25: whatever the provider and collection keys, the list a non-empty
\* query returns holds no id twice, and each source in it is, among the
\* matches the index returns in relevance order, the first with its id.
C25_SearchDedupByRank ==
    \A q \in Queries \ {None, Some("")} :
        LET best == IF fuse = None THEN <<>> ELSE BestRanked(Get(q))
            firsts == {best[j] : j \in {i \in DOMAIN best : IsFirst(best, i)}}
        IN \A p \in ProviderArgs, c \in CollectionArgs :
              LET found == search(q, p, c)
              IN /\ NoDuplicateIds(found)
                 /\ \A k \in DOMAIN found : found[k] \in firsts

\* C25 witness: writable, the index returns two matches with the id a1, the
\* global search keeps the better ranked one, and the search scoped to the
\* remote provider is not empty.
C25_Witness ==
    /\ isWritable
    /\ fuse # None
    /\ Len(BestRanked("smith")) > Len(search(Some("smith"), None, None))
    /\ BestRanked("smith")[1].id = "a1"
    /\ \E j \in DOMAIN BestRanked("smith") :
          j > 1 /\ BestRanked("smith")[j].id = "a1"
    /\ search(Some("smith"), None, None)[1] = BestRanked("smith")[1]
    /\ search(Some("smith"), Some(kZoteroProviderKey), Some("c1")) # <<>>

\* C26: for a non-empty query, with a provider key and a collection key the
\* result is the global result restricted, in its order, to the sources of
\* that provider whose collectionKeys contain the collection key; with a
\* provider key only, to the sources of that provider; without a provider
\* key it is the global result whatever the collection key. A key that is
\* undefined or empty is not given.
C26_ScopedIsRestrictedGlobal ==
    \A q \in Queries \ {None, Some("")} :
        LET global == search(q, None, None)
        IN \A p \in ProviderArgs, c \in CollectionArgs :
              LET ofProvider(item) == item.providerKey = Get(p)
                  ofProviderInCollection(item) ==
                      item.providerKey = Get(p) /\ Get(c) \in item.collectionKeys
              IN search(q, p, c) =
                    IF p \in {None, Some("")} THEN global
                    ELSE IF c \in {None, Some("")} THEN SelectSeq(global, ofProvider)
                    ELSE SelectSeq(global, ofProviderInCollection)

\* C26 witness: writable, the global result for "smith" holds sources of
\* both providers, the remote provider's part of it is shorter, and its
\* collection c2 part shorter again and not empty.
C26_Witness ==
    /\ isWritable
    /\ \E k \in DOMAIN search(Some("smith"), None, None) :
          search(Some("smith"), None, None)[k].providerKey = kLocalBiliographyProviderKey
    /\ Len(search(Some("smith"), Some(kZoteroProviderKey), None)) = 2
    /\ Len(search(Some("smith"), Some(kZoteroProviderKey), Some("c2"))) = 1
    /\ search(Some("smith"), None, Some("c2")) = search(Some("smith"), None, None)

\* C27: in a writable bibliography, for a fuzzy search scoped to the remote
\* provider, or to one of its collections, if at most limit sources of the
\* index inside the scope match the query then every one of them whose id
\* no other matching source carries is in the result, however many sources
\* outside the scope match too.
C27_CapOnScopedResult ==
    (isWritable /\ fuse # None) =>
        \A c \in {None, Some("c1"), Some("c2")} :
            LET matching(e) == Score("smith", e) # NoMatch
                inScope(e) ==
                    /\ matching(e)
                    /\ e.providerKey = kZoteroProviderKey
                    /\ c # None => Get(c) \in e.collectionKeys
                sameId(e) == {j \in DOMAIN Get(fuse).docs :
                                 matching(Get(fuse).docs[j]) /\ Get(fuse).docs[j].id = e.id}
                scoped == SelectSeq(Get(fuse).docs, inScope)
                found == search(Some("smith"), Some(kZoteroProviderKey), c)
            IN Len(scoped) <= limit =>
                  \A k \in DOMAIN scoped :
                      Cardinality(sameId(scoped[k])) = 1 =>
                          \E j \in DOMAIN found : found[j] = scoped[k]

\* The nodes of a forest at every depth, each with the key of the node it
\* is a child of (none for a root).
RECURSIVE Flatten(_, _)
Flatten(forest, parent) ==
    IF forest = <<>> THEN <<>>
    ELSE <<[key |-> forest[1].key, name |-> forest[1].name, type |-> forest[1].type,
            parent |-> parent]>>
         \o Flatten(forest[1].children, Some(forest[1].key))
         \o Flatten(Tail(forest), parent)

\* A collection without parentKey: undefined or empty.
IsRoot(c) == c.parentKey \in {None, Some("")}

\* The parent chain of collection c ends at a collection without parentKey
\* within so many steps.
RECURSIVE EndsAtRoot(_, _, _)
EndsAtRoot(containers, c, steps) ==
    \/ IsRoot(c)
    \/ /\ steps > 0
       /\ \E k \in DOMAIN containers :
             /\ containers[k].key = Get(c.parentKey)
             /\ EndsAtRoot(containers, containers[k], steps - 1)

\* C28: the root nodes of the tree toTree returned are exactly the
\* collections without parentKey, each once, in alphabetical order of
\* name; every collection whose parent chain ends at one of them is in the
\* tree exactly once, under the node of its parentKey, with its own name.
C28_TreeOfCollections ==
    panel.built =>
        LET containers == panel.containers
            rootNodes == panel.rootNodes
            all == Flatten(rootNodes, None)
        IN /\ \A k \in DOMAIN rootNodes :
                 \E j \in DOMAIN containers :
                     IsRoot(containers[j]) /\ containers[j].key = rootNodes[k].key
           /\ \A j \in DOMAIN containers :
                 IsRoot(containers[j]) =>
                     Cardinality({k \in DOMAIN rootNodes : rootNodes[k].key = containers[j].key}) = 1
           /\ \A k \in DOMAIN rootNodes :
                 k > 1 => localeCompare(rootNodes[k - 1].name, rootNodes[k].name) <= 0
           /\ \A j \in DOMAIN containers :
                 EndsAtRoot(containers, containers[j], Len(containers)) =>
                     /\ Cardinality({k \in DOMAIN all : all[k].key = containers[j].key}) = 1
                     /\ \A k \in DOMAIN all :
                           all[k].key = containers[j].key =>
                               /\ all[k].name = containers[j].name
                               /\ all[k].type = panel.type
                               /\ all[k].parent = IF IsRoot(containers[j]) THEN None
                                                  ELSE containers[j].parentKey

\* C28 witness: a tree of three levels whose grandchild sorts first and
\* whose root sorts last, so that both parents were placeholders.
C28_Witness ==
    /\ panel.built
    /\ Len(panel.rootNodes) = 1
    /\ panel.rootNodes[1].name = "chem"
    /\ Len(panel.rootNodes[1].children) = 1
    /\ panel.rootNodes[1].children[1].name = "bio"
    /\ Len(panel.rootNodes[1].children[1].children) = 1
    /\ panel.rootNodes[1].children[1].children[1].name = "art"

\* C29: no transaction was dispatched by the handler of the embedded
\* editor's change or changeSelection event while update(), initEditor()'s
\* setValue or setSelection() was pushing into the embedded editor, and
\* between handlers the updating flag is false.
C29_NoDispatchWhilePushing ==
    /\ nodeView.updating = FALSE
    /\ nodeView.pushing = "none"
    /\ \A tr \in nodeView.dispatched :
          tr.origin \in {"change", "changeSelection"} => tr.during = "none"

\* C29 witness: the embedded editor exists and holds the outer node's
\* text, the outer editor has pushed a backward selection into it, which
\* the embedded editor would report as a forward one, and the outer
\* selection is still the backward one: nothing was dispatched.
C29_Witness ==
    /\ nodeView.editSession /\ nodeView.listening /\ nodeView.focused
    /\ nodeView.value = <<"b">> /\ nodeView.node = <<"b">> /\ nodeView.doc = <<"b">>
    /\ nodeView.applied = <<<<1, 0>>>>
    /\ nodeView.selection = <<1, 0>>
    /\ nodeView.pmSelection = Some(<<1, 0>>)
    /\ asProseMirrorSelection(nodeView) # nodeView.pmSelection
    /\ nodeView.dispatched = {}

\* C30: as long as the embedded editor does not exist, no selection is
\* set in it, a setSelection() call leaves its selection as the queued one,
\* replacing the one queued before, and nothing else alters the queue of a
\* view; initEditor() then sets the queued selection, once, and empties
\* the queue; once the editor exists the queue stays empty and every
\* setSelection() call sets its selection at once. A view that replaces
\* another one (the node's text differs) starts with an empty queue.
C30_QueuedSelectionApplied ==
    [][LET v == nodeView
           w == nodeView'
           shown(selection) == <<Min(selection[1], Len(w.value)), Min(selection[2], Len(w.value))>>
       IN /\ ~w.aceEditor =>
                /\ ~v.aceEditor
                /\ w.applied = <<>>
                /\ IF w.asked # <<>>
                   THEN w.queuedSelection = Some(w.asked[Len(w.asked)])
                   ELSE \/ w.queuedSelection = v.queuedSelection
                        \/ w.doc # v.doc /\ w.queuedSelection = None
          /\ (~v.aceEditor /\ w.aceEditor) =>
                /\ w.queuedSelection = None
                /\ IF v.queuedSelection = None \/ w.doc # v.doc
                   THEN w.applied = <<>>
                   ELSE /\ w.applied = <<Get(v.queuedSelection)>>
                        /\ w.selection = shown(Get(v.queuedSelection))
          /\ v.aceEditor =>
                /\ w.queuedSelection = None
                /\ w.applied = w.asked
                /\ Len(w.asked) <= 1
                /\ w.asked # <<>> => w.selection = shown(w.asked[1])]_vars

\* C30 witness: the embedded editor was just created with a selection
\* queued, and that selection, a backward one, is the one it shows.
C30_Witness ==
    /\ nodeView.aceEditor /\ nodeView.editSession
    /\ nodeView.queuedSelection = None
    /\ nodeView.asked = <<<<2, 1>>>>
    /\ nodeView.applied = <<<<2, 1>>>>
    /\ nodeView.selection = <<2, 1>>
    /\ nodeView.value = <<"a", "b">>
    /\ nodeView.dispatched = {[origin |-> "focus", during |-> "setSelection", tr |-> "setSelection"]}

\* ---------------------------------------------------------------------
\* C31: a node view creates its chunk editor at most once. Its
\* constructor creates the editor at once when the render queue has
\* completed and adds the view to the queue otherwise; the view has one
\* editor, one set of handlers and commands and one resize subscription
\* exactly when it is initialised, and none before; an initEditor() call
\* on an initialised view leaves the view as it was when the call started.
EditorsOf(v) == IF v.aceEditor THEN 1 ELSE 0

CreatedOnce(v) ==
    /\ v.chunks = EditorsOf(v)
    /\ v.handlers = EditorsOf(v)
    /\ v.subscriptions = 1 + EditorsOf(v)
    /\ v.chunk = v.aceEditor /\ v.editSession = v.aceEditor
    /\ v.renderCompleted => v.aceEditor /\ ~v.inRenderQueue
    /\ ~v.renderCompleted => v.inRenderQueue

C31_EditorCreatedOnce ==
    [][/\ CreatedOnce(nodeView')
       /\ nodeView'.recalled =>
              nodeView' = [Started EXCEPT !.recalled = TRUE]]_vars

\* A view the constructor queued was initialised later, and then
\* initEditor() was called again.
C31_Witness ==
    /\ nodeView.recalled
    /\ nodeView.inRenderQueue
    /\ nodeView.chunks = 1

\* ---------------------------------------------------------------------
\* C32: a node view has at most one resize timeout pending, and
\* resizeTimer is its id, or 0 when none is pending; handling a resize
\* event ends the pending timeout and starts a new one; a timeout that
\* runs resizes the embedded editor exactly when the last rendered width
\* differs from the element's width, and leaves no timeout pending.
C32_ResizeDebounced ==
    [][LET v == nodeView
           w == nodeView'
       IN /\ Cardinality(w.timers) <= 1
          /\ w.timers = IF w.resizeTimer = 0 THEN {} ELSE {w.resizeTimer}
          /\ w.resizing = "debounced" =>
                 /\ w.resizeTimer # 0
                 /\ w.resizeTimer \notin v.timers
                 /\ v.timers \cap w.timers = {}
          /\ w.resizing \in {"resized", "skipped"} =>
                 /\ v.resizeTimer # 0
                 /\ w.resizeTimer = 0
                 /\ w.resizing = "resized" <=> v.renderedWidth # v.offsetWidth]_vars

\* C32 witness: a resize event arrived while the timeout of an earlier one
\* was pending, whose id 1 the new timeout could therefore not take; the
\* new timeout is the only one pending, and the editor's width has changed
\* since it last rendered.
C32_Witness ==
    /\ nodeView.resizing = "debounced"
    /\ nodeView.resizeTimer = 2 /\ nodeView.timers = {2}
    /\ nodeView.renderedWidth = 1 /\ nodeView.offsetWidth = 2

\* ---------------------------------------------------------------------
\* C33: whenever the embedded editor is initialised and no dispatched
\* transaction waits to be handed back, the editor's text, the view's node
\* text and the outer document's node text are equal. A step that changes
\* the outer node's text of an initialised view leaves the editor's text
\* equal to it; a handler dispatches at most one replace transaction, and
\* when it does the outer node's text has become the editor's text; the
\* update() the outer editor then calls leaves the editor's text and
\* selection as they are and dispatches nothing.
C33_TextInSync ==
    [][LET v == nodeView
           w == nodeView'
       IN /\ (w.editSession /\ ~w.handing) => (w.value = w.node /\ w.node = w.doc)
          /\ (v.editSession /\ w.doc # v.doc) => w.value = w.doc
          /\ w.replaced <= 1
          /\ (~v.handing /\ w.handing) =>
                 /\ w.replaced = 1
                 /\ w.value # v.value
                 /\ w.doc = w.value
          /\ v.handing =>
                 /\ ~w.handing
                 /\ w.node = v.doc
                 /\ w = [v EXCEPT !.handing = FALSE, !.node = v.doc]]_vars

\* C33 witness: the user has typed "ab" into an initialised editor that
\* held another text; one replace transaction was dispatched, the outer
\* editor has handed the new node to update(), and the three texts agree.
C33_Witness ==
    /\ nodeView.editSession /\ ~nodeView.handing
    /\ nodeView.replaced = 1
    /\ [origin |-> "change", during |-> "none", tr |-> "replaceWith"] \in nodeView.dispatched
    /\ nodeView.value = <<"a", "b">>
    /\ nodeView.node = <<"a", "b">>
    /\ nodeView.doc = <<"a", "b">>

\* ---------------------------------------------------------------------
\* C34: computeChange(oldVal, newVal) returns null exactly when the two
\* values are equal. Otherwise it returns from, to and text with
\* 0 <= from <= to <= length of oldVal such that oldVal with the range
\* from..to replaced by text is newVal; from is the length of the longest
\* common prefix of the two values, and what follows to in oldVal is their
\* longest common suffix that lies behind that prefix in both.

\* The largest number of the set.
Largest(S) == CHOOSE k \in S : \A j \in S : j <= k

\* The length of the longest common prefix of the two values.
CommonPrefix(oldVal, newVal) ==
    Largest({k \in 0..Min(Len(oldVal), Len(newVal)) :
                SubSeq(oldVal, 1, k) = SubSeq(newVal, 1, k)})

\* The length of the longest common suffix of the two values that starts
\* behind their first from characters in both.
CommonSuffixBehind(oldVal, newVal, from) ==
    Largest({k \in 0..Min(Len(oldVal) - from, Len(newVal) - from) :
                SubSeq(oldVal, Len(oldVal) - k + 1, Len(oldVal))
                    = SubSeq(newVal, Len(newVal) - k + 1, Len(newVal))})

C34_MinimalChange ==
    computed.called =>
        LET oldVal == computed.oldVal
            newVal == computed.newVal
            change == computed.change
        IN /\ change = None <=> oldVal = newVal
           /\ change # None =>
                  LET from == Get(change).from
                      to == Get(change).to
                      text == Get(change).text
                  IN /\ 0 <= from /\ from <= to /\ to <= Len(oldVal)
                     /\ Splice(oldVal, from, to, text) = newVal
                     /\ from = CommonPrefix(oldVal, newVal)
                     /\ Len(oldVal) - to = CommonSuffixBehind(oldVal, newVal, from)

\* C34 witness: computeChange("aba", "a") was called; the common prefix "a"
\* is also a common suffix, and the change removes "ba" behind it.
C34_Witness ==
    /\ computed.called
    /\ computed.oldVal = <<"a", "b", "a">>
    /\ computed.newVal = <<"a">>
    /\ computed.change = Some([from |-> 1, to |-> 3, text |-> <<>>])

====
